---- MODULE Spec2Model ----
(***************************************************************************)
(* cron-claude: the task execution engine (executor.ts), the audit logger  *)
(* (logger.ts) and the Windows Task Scheduler registrar (scheduler.ts).    *)
(*                                                                         *)
(* Spec      one call of executeTask and the events that follow it         *)
(* FairSpec  Spec with the fairness node's event loop gives the timer      *)
(* LogSpec   finalizeLog / verifyLogFile over arbitrary logs and documents *)
(* SchedSpec register / unregister / enable / disable / status calls       *)
(* CronSpec  parseCronExpression over a set of cron expressions            *)
(* StepSpec  addLogStep over arbitrary logs                                 *)
(* KeySpec   getSecretKey / updateConfig in two processes                   *)
(* RunSpec   createLog / finalizeLog in two processes sharing ./logs        *)
(* StorageSpec  the TaskStorage calls on FileStorage and MemoryStorage      *)
(***************************************************************************)
EXTENDS Integers, Sequences, FiniteSets, TLC

VARIABLES
    \* ---- executor.ts: one executeTask call
    pc,            \* position of executeTask
    task,          \* the TaskDefinition parseTaskDefinition returned
    apiKey,        \* process.env.ANTHROPIC_API_KEY is set
    log,           \* the in-memory TaskLog (NoLog before createLog)
    result,        \* the value executeViaCLI / executeViaAPI resolved with
    finalizeCalls, \* number of finalizeLog calls
    tempFile,      \* the temporary instruction file: "absent" | "present"
    child,         \* the spawned process: "none" | "running" | "errored" | "closed"
    exitCode,      \* the code the 'close' event reported ("none" before it)
    killSent,      \* claude.kill('SIGTERM') was called
    timer,         \* the setTimeout handle: "unset" | "armed" | "fired" | "cleared"
    spawns,        \* number of spawn calls that returned a ChildProcess
    apiCalls,      \* number of fetch calls
    notified,      \* number of sendNotification calls
    notice,        \* the notification: "none" | "pending" | "shown" | "failed"
    \* ---- logger.ts: the stores and the signing key
    logsDir,       \* the signed documents written to ./logs (fallback path)
    memorySkill,   \* the summaries handed to odsp-memory remember
    secretKey,     \* the key getSecretKey returns
    signedWith,    \* the key in use when the document was signed
    original,      \* the document as finalizeLog persisted it
    verdict,       \* the last verifyLogFile result
    \* ---- scheduler.ts: the native scheduler and the last call made
    native,        \* native task name -> the object the scheduler holds for it
    tempScripts,   \* temporary elevation scripts present on disk
    call,          \* what the last scheduler call did and returned
    \* ---- config.ts: the persisted configuration and the processes reading it
    configFile,    \* ~/.cron-claude/config.json: exists, and the secretKey in it
    generated,     \* number of generateSecretKey calls so far
    loading,       \* process -> where it is in loadConfig, and the key it holds
    returned,      \* the getSecretKey calls that returned, in order: process, key,
                   \* and whether the call found no file and created it
    \* ---- logger.ts: executions in separate processes and the files they share
    execs,         \* process -> the TaskLog of its execution and where it is
    files,         \* the files under ./logs: path and the execution that wrote it
    \* ---- storage/: the two TaskStorage implementations, driven side by side
    fileDir,       \* FileStorage tasksDir: task id -> the markdown files there
    memories,      \* the memories odsp-memory holds, oldest first
    tempDir,       \* MemoryStorage tempDir: task id -> the markdown files there
    microtasks,    \* the promise callbacks getTaskFilePath queued, not yet run
    reply          \* the last storage call and what each implementation answered

execVars  == <<pc, task, apiKey, log, result, finalizeCalls, tempFile, child,
               exitCode, killSent, timer, spawns, apiCalls, notified, notice>>
storeVars == <<logsDir, memorySkill>>
keyVars   == <<secretKey, signedWith, original, verdict>>
schedVars == <<native, tempScripts, call>>
configVars == <<configFile, generated, loading, returned>>
runVars   == <<execs, files>>
taskVars  == <<fileDir, memories, tempDir, microtasks, reply>>
auxVars   == <<configVars, runVars, taskVars>>
vars      == <<execVars, storeVars, keyVars, schedVars, auxVars>>

(***************************************************************************)
(* Text.  A string is a sequence of tokens; NL and CR are the line ends    *)
(* gray-matter looks at.                                                   *)
(***************************************************************************)
NL == "\n"
CR == "\r"
\* the code fence line of a rendered output or error block
FENCE == "fence"

\* gray-matter stringify.js newline(): append "\n" unless the text ends in one
Newline(str) ==
    IF Len(str) > 0 /\ str[Len(str)] = NL THEN str ELSE Append(str, NL)

\* a parse that drops every line end in front of the content
StripAllLineEnds(raw) ==
    LET IsEnd(i) == raw[i] \in {NL, CR}
        n == IF \A i \in 1..Len(raw) : IsEnd(i) THEN Len(raw)
             ELSE (CHOOSE i \in 1..Len(raw) :
                      ~IsEnd(i) /\ \A j \in 1..(i - 1) : IsEnd(j)) - 1
    IN  SubSeq(raw, n + 1, Len(raw))

\* gray-matter parseMatter: the text after the closing "---" loses one
\* leading "\r" and then one leading "\n"
StripLineEnd(raw) ==
    LET a == IF Len(raw) > 0 /\ raw[1] = CR THEN Tail(raw) ELSE raw
    IN  IF Len(a) > 0 /\ a[1] = NL THEN Tail(a) ELSE a

(***************************************************************************)
(* logger.ts                                                               *)
(***************************************************************************)
NoLog == [taskId |-> "", status |-> "none", steps |-> <<>>]

\* createLog
CreateLog(taskId) == [taskId |-> taskId, status |-> "running", steps |-> <<>>]

\* an addLogStep that puts the new step in front of the others
AddLogStepInFront(lg, action, output, error) ==
    [lg EXCEPT !.steps =
        <<[action |-> action, output |-> output, error |-> error]>> \o @]

\* addLogStep: undefined output / error are modelled as ""
AddLogStep(lg, action, output, error) ==
    [lg EXCEPT !.steps =
        Append(@, [action |-> action, output |-> output, error |-> error])]

\* HMAC-SHA256 taken as collision free: the digest names its key and content
SignContent(content, key) == <<key, content>>

VerifySignature(content, signature, key) ==
    signature = SignContent(content, key)

\* one step of the "Execution Steps" section (logger.ts 49-52)
RenderStep(step, idx) ==
    <<"Step ", ToString(idx), ": ", step.action, NL, "Time: ", NL>>
    \o (IF step.output # ""
        THEN <<NL, "Output:", NL, FENCE, NL, step.output, NL, FENCE, NL>>
        ELSE <<>>)
    \o <<NL>>
    \o (IF step.error # ""
        THEN <<NL, "Error:", NL, FENCE, NL, step.error, NL, FENCE, NL>>
        ELSE <<>>)

RECURSIVE RenderSteps(_, _)
RenderSteps(steps, idx) ==
    IF idx > Len(steps) THEN <<>>
    ELSE RenderStep(steps[idx], idx)
         \o (IF idx < Len(steps) THEN <<NL, NL>> ELSE <<>>)
         \o RenderSteps(steps, idx + 1)

\* the template with its last line left unterminated
RenderBodyNoFinalNewline(lg) ==
    <<"Task Execution Log: ", lg.taskId, NL, NL,
      "Status: ", lg.status, NL, NL,
      "Execution Steps", NL, NL>>
    \o RenderSteps(lg.steps, 1)
    \o <<NL, NL, "Summary", NL,
         "Total steps: ", ToString(Len(lg.steps)), NL,
         "Status: ", lg.status>>

\* the template of formatTaskLog (logger.ts 39-59): the signed body
RenderBody(lg) ==
    <<"Task Execution Log: ", lg.taskId, NL, NL,
      "Status: ", lg.status, NL, NL,
      "Execution Steps", NL, NL>>
    \o RenderSteps(lg.steps, 1)
    \o <<NL, NL, "Summary", NL,
         "Total steps: ", ToString(Len(lg.steps)), NL,
         "Status: ", lg.status, NL>>

\* matter.stringify(content, frontmatter): the header, then the closing
\* delimiter line, then the content with a final newline
MatterStringify(content, data) ==
    [data |-> data, raw |-> <<NL>> \o Newline(content)]

\* matter(markdown)
MatterParse(doc) ==
    [data |-> doc.data, content |-> StripLineEnd(doc.raw)]

\* formatTaskLog
FormatTaskLog(lg, key) ==
    LET content == RenderBody(lg)
    IN  MatterStringify(content,
            [taskId    |-> lg.taskId,
             status    |-> lg.status,
             signature |-> SignContent(content, key)])

\* matter(markdown) raises on a header that is not YAML
MatterThrows(doc) == "broken" \in DOMAIN doc.data

\* the signature value of a header: the field is absent or has a value
HasSignature(data) == "signature" \in DOMAIN data
NoSignature == <<>>

\* a verification that hands whatever the header holds to verifySignature
VerifyLogFileNoSignatureCheck(markdown, key) ==
    IF MatterThrows(markdown)
    THEN [valid |-> FALSE, error |-> "Failed to parse log", raised |-> FALSE,
          taskId |-> "", status |-> ""]
    ELSE
    LET parsed == MatterParse(markdown)
        signature == IF HasSignature(parsed.data) THEN parsed.data.signature
                     ELSE NoSignature
    IN  IF VerifySignature(parsed.content, signature, key)
        THEN [valid |-> TRUE, error |-> "", raised |-> FALSE,
              taskId |-> parsed.data.taskId, status |-> parsed.data.status]
        ELSE [valid |-> FALSE, error |-> "Signature verification failed",
              raised |-> FALSE, taskId |-> "", status |-> ""]

\* verifyLogFile 117-154: the whole body is in a try whose catch returns
VerifyLogFile(markdown, key) ==
    IF MatterThrows(markdown)
    THEN [valid |-> FALSE, error |-> "Failed to parse log", raised |-> FALSE,
          taskId |-> "", status |-> ""]
    ELSE
    LET parsed == MatterParse(markdown)
    IN  \* !signature: the field is absent or its value is empty
        IF ~HasSignature(parsed.data) \/ parsed.data.signature = NoSignature
        THEN [valid |-> FALSE, error |-> "No signature found in log file",
              raised |-> FALSE, taskId |-> "", status |-> ""]
        ELSE IF VerifySignature(parsed.content, parsed.data.signature, key)
        THEN [valid |-> TRUE, error |-> "", raised |-> FALSE,
              taskId |-> parsed.data.taskId, status |-> parsed.data.status]
        ELSE [valid |-> FALSE, error |-> "Signature verification failed",
              raised |-> FALSE, taskId |-> "", status |-> ""]

\* what the log store does with one saveLogToMemory call
SaveOutcomes == {"tempWriteFails", "memoryOk", "fallbackOk", "fallbackFails"}

\* saveLogToMemory raises (logger.ts 86 outside the try, 103-104 in the catch)
SaveThrows(o) == o \in {"tempWriteFails", "fallbackFails"}

\* saveLogToMemory: the signed markdown reaches ./logs only on the fallback
\* path; odsp-memory remember is given a one-line summary
SaveLogToMemory(lg, o) ==
    /\ logsDir' = IF o = "fallbackOk"
                  THEN Append(logsDir, FormatTaskLog(lg, secretKey))
                  ELSE logsDir
    /\ memorySkill' = IF o = "memoryOk"
                      THEN Append(memorySkill,
                                  [taskId |-> lg.taskId, status |-> lg.status])
                      ELSE memorySkill

\* finalizeLog persisting before it sets the terminal status
FinalizeLogSaveFirst(lg, success, o) ==
    /\ SaveLogToMemory(lg, o)
    /\ log' = [lg EXCEPT !.status = IF success THEN "success" ELSE "failure"]
    /\ finalizeCalls' = finalizeCalls + 1

\* finalizeLog
FinalizeLog(lg, success, o) ==
    /\ log' = [lg EXCEPT !.status = IF success THEN "success" ELSE "failure"]
    /\ finalizeCalls' = finalizeCalls + 1
    /\ SaveLogToMemory(log', o)

(***************************************************************************)
(* executor.ts                                                             *)
(***************************************************************************)
\* the definitions a task file can hold (parseTaskDefinition defaults a
\* missing invocation to cli and accepts any other string)
TaskIds     == {"t1"}
Invocations == {"cli", "api", "other"}
Tasks == [id : TaskIds, enabled : BOOLEAN, invocation : Invocations,
          toast : BOOLEAN]

NoResult == [settled |-> FALSE, success |-> FALSE, error |-> ""]
Success  == [settled |-> TRUE, success |-> TRUE, error |-> ""]
Failure(msg) == [settled |-> TRUE, success |-> FALSE, error |-> msg]

\* exit codes the close event reports: 0, non-zero, none (killed by a signal)
ExitCodes == {"0", "1", "null"}

\* outcomes of the fetch of executeViaAPI
ApiOutcomes == {"ok", "httpError", "networkError"}

OtherVars == <<keyVars, schedVars, auxVars>>

\* executeTask 226-241, run when the dispatch has a result: finalize, then
\* the notification if the task asks for one
Conclude(lg, res, o) ==
    /\ result' = res
    /\ FinalizeLog(lg, res.success, o)
    /\ IF SaveThrows(o)
       THEN pc' = "threw" /\ UNCHANGED <<notified, notice>>
       ELSE IF task.toast
            THEN pc' = "waitNotify" /\ notified' = notified + 1
                 /\ notice' = "pending"
            ELSE pc' = "done" /\ UNCHANGED <<notified, notice>>

\* a resolve that lets every call through, as a plain callback would
ResolveEveryCall(lg, res, o) == Conclude(lg, res, o)

\* resolve(...) of the promise of executeViaCLI: the first call settles the
\* promise and executeTask resumes with it; a later call does nothing
Resolve(lg, res, o) ==
    IF ~result.settled
    THEN Conclude(lg, res, o)
    ELSE /\ log' = lg
         /\ UNCHANGED <<result, finalizeCalls, pc, notified, notice, storeVars>>

\* executeTask 209-210 and 221-223: finalize as failure and return
FinalizeAndReturn(lg, o) ==
    /\ FinalizeLog(lg, FALSE, o)
    /\ pc' = IF SaveThrows(o) THEN "threw" ELSE "done"

\* executeTask 203-204
Started == AddLogStep(CreateLog(task.id), "Task execution started",
                      "Task, Method", "")

\* parseTaskDefinition raises (the task file is missing or unreadable)
ParseFails ==
    /\ pc = "start"
    /\ pc' = "threw"
    /\ UNCHANGED <<task, apiKey, log, result, finalizeCalls, tempFile, child,
                   exitCode, killSent, timer, spawns, apiCalls, notified,
                   notice, storeVars, OtherVars>>

\* a disabled task whose record is finalized as a success
RunDisabledAsSuccess ==
    /\ pc = "start" /\ ~task.enabled
    /\ \E o \in SaveOutcomes :
          /\ FinalizeLog(AddLogStep(Started, "Task skipped - disabled", "", ""),
                         TRUE, o)
          /\ pc' = IF SaveThrows(o) THEN "threw" ELSE "done"
    /\ UNCHANGED <<task, apiKey, result, tempFile, child, exitCode, killSent,
                   timer, spawns, apiCalls, notified, notice, OtherVars>>

\* executeTask with enabled = false
RunDisabled ==
    /\ pc = "start" /\ ~task.enabled
    /\ \E o \in SaveOutcomes :
          FinalizeAndReturn(AddLogStep(Started, "Task skipped - disabled", "", ""), o)
    /\ UNCHANGED <<task, apiKey, result, tempFile, child, exitCode, killSent,
                   timer, spawns, apiCalls, notified, notice, OtherVars>>

\* executeTask with an invocation that is neither cli nor api
RunInvalid ==
    /\ pc = "start" /\ task.enabled /\ task.invocation \notin {"cli", "api"}
    /\ \E o \in SaveOutcomes :
          FinalizeAndReturn(
              AddLogStep(Started, "Invalid invocation method", "", "Unknown method"), o)
    /\ UNCHANGED <<task, apiKey, result, tempFile, child, exitCode, killSent,
                   timer, spawns, apiCalls, notified, notice, OtherVars>>

CliBegun == AddLogStep(Started, "Starting interactive Claude session", "", "")
CliLaunching ==
    AddLogStep(AddLogStep(CliBegun, "Created temporary task file", "tempFile", ""),
               "Launching Claude CLI (visible window)", "Using", "")

\* executeViaCLI: writeFileSync of the instruction file raises (catch 116-124)
RunCliWriteFails ==
    /\ pc = "start" /\ task.enabled /\ task.invocation = "cli"
    /\ \E o \in SaveOutcomes :
          Conclude(AddLogStep(CliBegun, "Execution setup failed", "", "write"),
                   Failure("write"), o)
    /\ UNCHANGED <<task, apiKey, tempFile, child, exitCode, killSent, timer,
                   spawns, apiCalls, OtherVars>>

\* executeViaCLI: spawn raises synchronously (catch 116-124); the instruction
\* file was written before
RunCliSpawnThrows ==
    /\ pc = "start" /\ task.enabled /\ task.invocation = "cli"
    /\ tempFile' = "present"
    /\ \E o \in SaveOutcomes :
          Conclude(AddLogStep(CliLaunching, "Execution setup failed", "", "spawn"),
                   Failure("spawn"), o)
    /\ UNCHANGED <<task, apiKey, child, exitCode, killSent, timer, spawns,
                   apiCalls, OtherVars>>

\* executeViaCLI 44-115: file written, process spawned, timer set, handlers
\* registered; executeTask waits for the promise
RunCliSpawned ==
    /\ pc = "start" /\ task.enabled /\ task.invocation = "cli"
    /\ tempFile' = "present"
    /\ log' = CliLaunching
    /\ child' = "running"
    /\ spawns' = spawns + 1
    /\ timer' = "armed"
    /\ pc' = "waitCLI"
    /\ UNCHANGED <<task, apiKey, result, finalizeCalls, exitCode, killSent,
                   apiCalls, notified, notice, storeVars, OtherVars>>

\* a timeout callback that resolves without killing the subprocess
TimerFiresNoKill ==
    /\ timer = "armed"
    /\ timer' = "fired"
    /\ \E o \in SaveOutcomes :
          Resolve(AddLogStep(log, "Execution timeout", "Task exceeded 5 minute limit", ""),
                  Failure("Execution timeout after 5 minutes"), o)
    /\ UNCHANGED <<task, apiKey, tempFile, child, exitCode, killSent, spawns,
                   apiCalls, OtherVars>>

\* a timeout callback that kills the subprocess and leaves the promise pending
TimerFiresKillOnly ==
    /\ timer = "armed"
    /\ timer' = "fired"
    /\ killSent' = TRUE
    /\ log' = AddLogStep(log, "Execution timeout", "Task exceeded 5 minute limit", "")
    /\ UNCHANGED <<task, apiKey, result, finalizeCalls, pc, notified, notice,
                   storeVars, tempFile, child, exitCode, spawns, apiCalls,
                   OtherVars>>

\* the setTimeout callback (executor.ts 66-75)
TimerFires ==
    /\ timer = "armed"
    /\ timer' = "fired"
    /\ killSent' = TRUE
    /\ \E o \in SaveOutcomes :
          Resolve(AddLogStep(log, "Execution timeout", "Task exceeded 5 minute limit", ""),
                  Failure("Execution timeout after 5 minutes"), o)
    /\ UNCHANGED <<task, apiKey, tempFile, child, exitCode, spawns, apiCalls,
                   OtherVars>>

\* a close handler that takes a missing exit code for a clean exit
ChildCloseNoCodeIsSuccess ==
    /\ child \in {"running", "errored"}
    /\ child' = "closed"
    /\ timer' = IF timer = "armed" THEN "cleared" ELSE timer
    /\ \E code \in ExitCodes, unlinkOk \in BOOLEAN, o \in SaveOutcomes :
          /\ exitCode' = code
          /\ tempFile' = IF unlinkOk THEN "absent" ELSE tempFile
          /\ IF code \in {"0", "null"}
             THEN Resolve(AddLogStep(log, "Claude session completed successfully",
                                     "Exit code", ""),
                          Success, o)
             ELSE Resolve(AddLogStep(log, "Claude session exited with error",
                                     "Exit code", ""),
                          Failure("Claude exited with code"), o)
    /\ UNCHANGED <<task, apiKey, killSent, spawns, apiCalls, OtherVars>>

\* the 'close' handler (executor.ts 77-104)
ChildClose ==
    /\ child \in {"running", "errored"}
    /\ child' = "closed"
    /\ timer' = IF timer = "armed" THEN "cleared" ELSE timer
    /\ \E code \in ExitCodes, unlinkOk \in BOOLEAN, o \in SaveOutcomes :
          /\ exitCode' = code
          /\ LET cleaned == IF unlinkOk
                            THEN AddLogStep(log, "Cleaned up temporary file", "", "")
                            ELSE AddLogStep(log, "Warning: Could not clean up temp file",
                                            "", "unlink")
             IN  /\ tempFile' = IF unlinkOk THEN "absent" ELSE tempFile
                 /\ IF code = "0"
                    THEN Resolve(AddLogStep(cleaned, "Claude session completed successfully",
                                            "Exit code", ""),
                                 Success, o)
                    ELSE Resolve(AddLogStep(cleaned, "Claude session exited with error",
                                            "Exit code", ""),
                                 Failure("Claude exited with code"), o)
    /\ UNCHANGED <<task, apiKey, killSent, spawns, apiCalls, OtherVars>>

\* the 'error' handler (executor.ts 106-115)
ChildError ==
    /\ child = "running"
    /\ child' = "errored"
    /\ timer' = IF timer = "armed" THEN "cleared" ELSE timer
    /\ \E o \in SaveOutcomes :
          Resolve(AddLogStep(log, "Failed to launch Claude", "", "err.message"),
                  Failure("err.message"), o)
    /\ UNCHANGED <<task, apiKey, tempFile, exitCode, killSent, spawns,
                   apiCalls, OtherVars>>

ApiBegun == AddLogStep(Started, "Starting API execution", "", "")

\* a credential check made only after the request was sent
RunApiNoKeyAfterFetch ==
    /\ pc = "start" /\ task.enabled /\ task.invocation = "api" /\ ~apiKey
    /\ apiCalls' = apiCalls + 1
    /\ \E o \in SaveOutcomes :
          Conclude(AddLogStep(ApiBegun, "API execution failed", "",
                              "ANTHROPIC_API_KEY environment variable not set"),
                   Failure("ANTHROPIC_API_KEY environment variable not set"), o)
    /\ UNCHANGED <<task, apiKey, tempFile, child, exitCode, killSent, timer,
                   spawns, OtherVars>>

\* executeViaAPI with no ANTHROPIC_API_KEY (141-143, catch 182-191)
RunApiNoKey ==
    /\ pc = "start" /\ task.enabled /\ task.invocation = "api" /\ ~apiKey
    /\ \E o \in SaveOutcomes :
          Conclude(AddLogStep(ApiBegun, "API execution failed", "",
                              "ANTHROPIC_API_KEY environment variable not set"),
                   Failure("ANTHROPIC_API_KEY environment variable not set"), o)
    /\ UNCHANGED <<task, apiKey, tempFile, child, exitCode, killSent, timer,
                   spawns, apiCalls, OtherVars>>

\* executeViaAPI 145-165: the request is sent; executeTask waits for fetch
RunApiRequest ==
    /\ pc = "start" /\ task.enabled /\ task.invocation = "api" /\ apiKey
    /\ log' = AddLogStep(ApiBegun, "API key found, making request", "", "")
    /\ apiCalls' = apiCalls + 1
    /\ pc' = "waitAPI"
    /\ UNCHANGED <<task, apiKey, result, finalizeCalls, tempFile, child,
                   exitCode, killSent, timer, spawns, notified, notice,
                   storeVars, OtherVars>>

\* executeViaAPI 167-191: fetch settled
ApiSettles ==
    /\ pc = "waitAPI"
    /\ \E out \in ApiOutcomes, o \in SaveOutcomes :
          IF out = "ok"
          THEN Conclude(AddLogStep(log, "API request completed", "output", ""),
                        Success, o)
          ELSE Conclude(AddLogStep(log, "API execution failed", "", out),
                        Failure(out), o)
    /\ UNCHANGED <<task, apiKey, tempFile, child, exitCode, killSent, timer,
                   spawns, apiCalls, OtherVars>>

\* a rejected notification that is not caught
NotifySettlesRethrows ==
    /\ pc = "waitNotify"
    /\ \E n \in {"shown", "failed"} :
          /\ notice' = n
          /\ pc' = IF n = "failed" THEN "threw" ELSE "done"
    /\ UNCHANGED <<task, apiKey, log, result, finalizeCalls, tempFile, child,
                   exitCode, killSent, timer, spawns, apiCalls, notified,
                   storeVars, OtherVars>>

\* sendNotification settled: resolved, or rejected and caught (238-240)
NotifySettles ==
    /\ pc = "waitNotify"
    /\ pc' = "done"
    /\ notice' \in {"shown", "failed"}
    /\ UNCHANGED <<task, apiKey, log, result, finalizeCalls, tempFile, child,
                   exitCode, killSent, timer, spawns, apiCalls, notified,
                   storeVars, OtherVars>>

ExecInit ==
    /\ pc = "start"
    /\ task \in Tasks
    /\ apiKey \in BOOLEAN
    /\ log = NoLog
    /\ result = NoResult
    /\ finalizeCalls = 0
    /\ tempFile = "absent"
    /\ child = "none"
    /\ exitCode = "none"
    /\ killSent = FALSE
    /\ timer = "unset"
    /\ spawns = 0
    /\ apiCalls = 0
    /\ notified = 0
    /\ notice = "none"

StoreInit ==
    /\ logsDir = <<>>
    /\ memorySkill = <<>>

NoDoc == [data |-> [taskId |-> "", status |-> ""], raw |-> <<>>]
NoVerdict == [checked |-> FALSE, doc |-> NoDoc, key |-> "",
              res |-> [valid |-> FALSE, error |-> "", raised |-> FALSE,
                       taskId |-> "", status |-> ""]]

KeyInit ==
    /\ secretKey = "k1"
    /\ signedWith = ""
    /\ original = NoDoc
    /\ verdict = NoVerdict

\* the processes that run side by side (one node process per execution)
Procs == {"p1", "p2"}

\* config.json: absent, or present with the secretKey it holds ("" for none)
ConfigAbsent == [exists |-> FALSE, secretKey |-> ""]
ConfigWith(key) == [exists |-> TRUE, secretKey |-> key]

Idle == [at |-> "idle", key |-> ""]
NoExec == [at |-> "none", taskId |-> "", now |-> 0, suffix |-> "",
           executionId |-> "", status |-> "none", stored |-> "none"]

(***************************************************************************)
(* storage/file-storage.ts and storage/memory-storage.ts                   *)
(***************************************************************************)
StoreIds == {"x", "y"}

TaskSchedules == {<<"0", "9", "*", "*", "*">>, <<"0", "0", "*", "*", "*">>}

\* the TaskDefinition values the callers pass in
TaskDefs ==
    [id : StoreIds, schedule : TaskSchedules, invocation : {"cli"},
     toast : {FALSE}, enabled : {TRUE}, instructions : {<<"summarise">>}]

NoTaskDef == [id |-> "", schedule |-> <<>>, invocation |-> "", toast |-> FALSE,
              enabled |-> FALSE, instructions |-> <<>>]

\* taskToMarkdown (the same template in both classes): the front matter and
\* the text after the closing "---", which is "\n\n<instructions>\n"
TaskToMarkdown(t) ==
    [data |-> [id |-> t.id, schedule |-> t.schedule, invocation |-> t.invocation,
               toast |-> t.toast, enabled |-> t.enabled],
     raw  |-> <<NL, NL>> \o t.instructions \o <<NL>>]

\* parseTaskFile / parseMarkdown / parseTaskDefinition: matter() and defaults
ParseMarkdown(doc) ==
    [id          |-> IF doc.data.id = "" THEN "unknown" ELSE doc.data.id,
     schedule    |-> IF doc.data.schedule = <<>>
                     THEN <<"0", "0", "*", "*", "*">> ELSE doc.data.schedule,
     invocation  |-> IF doc.data.invocation = "" THEN "cli"
                     ELSE doc.data.invocation,
     toast       |-> doc.data.toast,
     enabled     |-> doc.data.enabled # FALSE,
     instructions |-> StripLineEnd(doc.raw)]

\* String.prototype.trim on a document: it starts with "---", so only the
\* line ends at its end go
RECURSIVE TrimEnd(_)
TrimEnd(raw) ==
    IF Len(raw) > 0 /\ raw[Len(raw)] \in {NL, CR}
    THEN TrimEnd(SubSeq(raw, 1, Len(raw) - 1)) ELSE raw

Trim(doc) == [doc EXCEPT !.raw = TrimEnd(@)]

\* what a storage call answered: one shape for void, a thrown Error, a
\* TaskDefinition, null and a boolean
NoAnswer == [kind |-> "none", error |-> "", flag |-> FALSE, task |-> NoTaskDef]
Void        == [NoAnswer EXCEPT !.kind = "void"]
Threw(msg)  == [NoAnswer EXCEPT !.kind = "error", !.error = msg]
Null        == [NoAnswer EXCEPT !.kind = "null"]
Found(t)    == [NoAnswer EXCEPT !.kind = "task", !.task = t]
Bool(b)     == [NoAnswer EXCEPT !.kind = "boolean", !.flag = b]

\* ---- FileStorage: dir maps a task id to <<>> or to the one file <<doc>>
FileCreateTask(dir, t) ==
    IF dir[t.id] # <<>>
    THEN [dir |-> dir, answer |-> Threw("already exists")]
    ELSE [dir |-> [dir EXCEPT ![t.id] = <<TaskToMarkdown(t)>>], answer |-> Void]

FileGetTask(dir, taskId) ==
    IF dir[taskId] = <<>> THEN Null ELSE Found(ParseMarkdown(dir[taskId][1]))

FileUpdateTask(dir, taskId, t) ==
    IF dir[taskId] = <<>>
    THEN [dir |-> dir, answer |-> Threw("not found")]
    ELSE [dir |-> [dir EXCEPT ![taskId] = <<TaskToMarkdown(t)>>], answer |-> Void]

FileDeleteTask(dir, taskId) ==
    IF dir[taskId] = <<>>
    THEN [dir |-> dir, answer |-> Threw("not found")]
    ELSE [dir |-> [dir EXCEPT ![taskId] = <<>>], answer |-> Void]

FileExists(dir, taskId) == Bool(dir[taskId] # <<>>)

\* ---- MemoryStorage: mems is the list of memories odsp-memory holds
\* storeInMemory: odsp-memory remember with the tag task-id:<taskId>
StoreInMemory(mems, taskId, content) ==
    Append(mems, [tag |-> taskId, content |-> content])

\* retrieveFromMemory: odsp-memory recall "task-id:<taskId>", trimmed; <<>>
\* is null.  Of several memories with the tag the newest is taken as the
\* answer, which is what updateTask counts on.
RetrieveFromMemory(mems, taskId) ==
    LET hits == {i \in 1..Len(mems) : mems[i].tag = taskId}
    IN  IF hits = {} THEN <<>>
        ELSE <<Trim(mems[CHOOSE i \in hits : \A j \in hits : j <= i].content)>>

\* deleteFromMemory: lists the memories, looks for the tag and logs a
\* warning; nothing is removed
DeleteFromMemory(mems, taskId) == mems

MemCreateTask(mems, t) ==
    IF RetrieveFromMemory(mems, t.id) # <<>>
    THEN [mems |-> mems, answer |-> Threw("already exists")]
    ELSE [mems |-> StoreInMemory(mems, t.id, TaskToMarkdown(t)), answer |-> Void]

MemGetTask(mems, taskId) ==
    LET content == RetrieveFromMemory(mems, taskId)
    IN  IF content = <<>> THEN Null ELSE Found(ParseMarkdown(content[1]))

MemUpdateTask(mems, taskId, t) ==
    IF RetrieveFromMemory(mems, taskId) = <<>>
    THEN [mems |-> mems, answer |-> Threw("not found")]
    ELSE [mems |-> StoreInMemory(DeleteFromMemory(mems, taskId), t.id,
                                 TaskToMarkdown(t)),
          answer |-> Void]

\* deleteTask, the memory part; the temp file is unlinked by the action
MemDeleteTask(mems, taskId) ==
    IF RetrieveFromMemory(mems, taskId) = <<>>
    THEN [mems |-> mems, answer |-> Threw("not found")]
    ELSE [mems |-> DeleteFromMemory(mems, taskId), answer |-> Void]

MemExists(mems, taskId) == Bool(RetrieveFromMemory(mems, taskId) # <<>>)

\* no storage call in progress
NoReply == [op |-> "none", taskId |-> "", task |-> NoTaskDef,
            file |-> NoAnswer, memory |-> NoAnswer,
            stored |-> FALSE, atPath |-> <<>>]

TaskInit ==
    /\ fileDir = [id \in StoreIds |-> <<>>]
    /\ memories = <<>>
    /\ tempDir = [id \in StoreIds |-> <<>>]
    /\ microtasks = {}
    /\ reply = NoReply

AuxInit ==
    /\ configFile = ConfigWith("k1")
    /\ generated = 0
    /\ loading = [p \in Procs |-> Idle]
    /\ returned = <<>>
    /\ execs = [p \in Procs |-> NoExec]
    /\ files = {}
    /\ TaskInit

(***************************************************************************)
(* scheduler.ts                                                            *)
(***************************************************************************)
SchedIds  == {"a", "b"}

\* a name derived from nothing but the prefix
TaskNamePrefixOnly(id) == "CronClaude_"

\* the native name of a task: CronClaude_<taskId> (scheduler.ts 478, 515,
\* 544, 564, 584, 609)
TaskName(id) == "CronClaude_" \o id
NativeNames == {TaskName(id) : id \in SchedIds}

\* A cron expression is held as cronExpr.split(' ') sees it: the sequence of
\* its parts, an empty part standing for two blanks in a row.
MinuteTokens == {"*", "0", "30", "*/15", "0,30"}
HourTokens   == {"*", "0", "8", "9", "9-17", "*/2"}
DomTokens    == {"*", "1", "15"}
MonthTokens  == {"*", "6", "1-3"}
DowTokens    == {"*", "0", "1", "7", "1-5", "1,3"}
FieldTokens  == <<MinuteTokens, HourTokens, DomTokens, MonthTokens, DowTokens>>
SecondTokens == {"*", "0"}

\* cron.validate of node-cron: runs of blanks count as one, and an expression
\* has five fields, or six with a leading seconds field
NonEmpty(parts) == SelectSeq(parts, LAMBDA part : part # "")
CronValidate(parts) ==
    LET f == NonEmpty(parts)
    IN  \/ Len(f) = 5 /\ \A i \in 1..5 : f[i] \in FieldTokens[i]
        \/ Len(f) = 6 /\ f[1] \in SecondTokens
                      /\ \A i \in 1..5 : f[i + 1] \in FieldTokens[i]

\* parseInt: the leading digits of the text, NaN when there are none
NaN == -1
ParseInt(tok) ==
    CASE tok = "0" -> 0
      [] tok = "8" -> 8
      [] tok = "9" -> 9
      [] tok = "9-17" -> 9
      [] tok = "0,30" -> 0
      [] tok = "30" -> 30
      [] OTHER -> NaN
NumberToString(n) == IF n = NaN THEN "NaN" ELSE ToString(n)
PadStart2(str) == IF Len(str) < 2 THEN "0" \o str ELSE str

\* dayOfWeek.split(',') and the dayMap lookup with its 'MON' default (344-356)
SplitComma(tok) == IF tok = "1,3" THEN <<"1", "3">> ELSE <<tok>>
DayMap(d) ==
    CASE d \in {"0", "7"} -> "SUN"
      [] d = "1" -> "MON"
      [] d = "2" -> "TUE"
      [] d = "3" -> "WED"
      [] d = "4" -> "THU"
      [] d = "5" -> "FRI"
      [] d = "6" -> "SAT"
      [] OTHER -> "MON"

NoTrigger == [type |-> "none", time |-> "", days |-> <<>>]
Rejected(msg) == [ok |-> FALSE, error |-> msg, trigger |-> NoTrigger]

\* a classification that looks at the month field too
ParseCronExpressionMonthAware(parts) ==
    IF ~CronValidate(parts) THEN Rejected("Invalid cron expression")
    ELSE IF Len(parts) # 5 THEN Rejected("Invalid cron expression format")
    ELSE [ok |-> TRUE, error |-> "",
          trigger |-> [type |-> IF parts[5] # "*" THEN "weekly"
                                ELSE IF parts[3] # "*" \/ parts[4] # "*"
                                     THEN "monthly" ELSE "daily",
                       time |-> "00:00", days |-> <<>>]]

\* parseCronExpression 317-364
ParseCronExpression(parts) ==
    IF ~CronValidate(parts) THEN Rejected("Invalid cron expression")
    ELSE IF Len(parts) # 5 THEN Rejected("Invalid cron expression format")
    ELSE
    LET minute == parts[1]
        hour == parts[2]
        dayOfMonth == parts[3]
        dayOfWeek == parts[5]
        time == IF hour # "*" /\ minute # "*"
                THEN PadStart2(NumberToString(ParseInt(hour))) \o ":"
                        \o PadStart2(NumberToString(ParseInt(minute)))
                ELSE "00:00"
        days == [i \in 1..Len(SplitComma(dayOfWeek)) |->
                    DayMap(SplitComma(dayOfWeek)[i])]
    IN  [ok |-> TRUE, error |-> "",
         trigger |-> IF dayOfWeek # "*"
                     THEN [type |-> "weekly", time |-> time, days |-> days]
                     ELSE IF dayOfMonth # "*"
                     THEN [type |-> "monthly", time |-> time, days |-> <<>>]
                     ELSE [type |-> "daily", time |-> time, days |-> <<>>]]

Schedules == {<<"0", "9", "*", "*", "*">>, <<"30", "8", "*", "*", "1">>,
              <<"0", "9", "15", "*", "*">>, <<"a", "b", "c">>}

\* registerTask goes on when parseCronExpression returned a trigger (447)
CronValid(cronExpr) == ParseCronExpression(cronExpr).ok

\* the native object CronClaude_<id>: its state and the registration it holds
\* the trigger of a native object
NoNativeTrigger == [kind |-> "none", at |-> "", daysOfWeek |-> <<>>,
                    daysOfMonth |-> <<>>]

\* the trigger the registration script builds (475):
\* New-ScheduledTaskTrigger -Daily -At "${trigger.time || '00:00'}"
ScriptTrigger(trigger) ==
    [kind |-> "daily", at |-> IF trigger.time = "" THEN "00:00" ELSE trigger.time,
     daysOfWeek |-> <<>>, daysOfMonth |-> <<>>]

Unregistered == [state |-> "Unregistered", schedule |-> <<>>,
                 installed |-> NoNativeTrigger]
Registered(st, cronExpr) ==
    [state |-> st, schedule |-> cronExpr,
     installed |-> ScriptTrigger(ParseCronExpression(cronExpr).trigger)]
Exists(obj) == obj.state # "Unregistered"

\* an error of execSync: its message and the stderr it captured, as the
\* phrases they contain
ExecErrors ==
    {[message |-> <<"Command failed">>, stderr |-> <<"Access is denied">>],
     [message |-> <<"Command failed", "0x80070005">>, stderr |-> <<>>],
     [message |-> <<"Command failed">>, stderr |-> <<"PermissionDenied">>],
     [message |-> <<"Command failed">>, stderr |-> <<"The parameter is incorrect">>]}
NoError == [message |-> <<>>, stderr |-> <<>>]
ErrorOf(msg) == [message |-> <<msg>>, stderr |-> <<>>]

Includes(text, phrase) == \E i \in 1..Len(text) : text[i] = phrase

\* a check that looks at the message and not at stderr
IsAccessDeniedMessageOnly(err) ==
    \/ Includes(err.message, "Access is denied")
    \/ Includes(err.message, "0x80070005")
    \/ Includes(err.message, "PermissionDenied")

\* a check that takes every failure of the direct attempt for a denial
IsAccessDeniedAnyFailure(err) == err = err

\* registerTask 493-497
IsAccessDenied(err) ==
    LET errorText == err.message \o err.stderr
    IN  \/ Includes(errorText, "Access is denied")
        \/ Includes(errorText, "0x80070005")
        \/ Includes(errorText, "PermissionDenied")

\* LastRunTime of a task that has not run yet, as the list handler of
\* mcp-server.ts knows it, and one of a task that has
NeverRun == "12/30/1899 12:00:00 AM"
LastRunTimes == {NeverRun, "11/02/2026 9:00:00 AM"}

\* the State property Get-ScheduledTask can report for a native object
NativeStates(obj) ==
    IF obj.state = "Enabled" THEN {"Ready", "Running"}
    ELSE IF obj.state = "Disabled" THEN {"Disabled"}
    ELSE {""}
NoInfo == [state |-> "", lastRun |-> ""]

\* { exists: false }: enabled and lastRunTime are undefined
NoStatus == [exists |-> FALSE, enabled |-> FALSE, lastRunTime |-> ""]

\* getTaskStatus 617-627 / 626-628: what is returned for the JSON of the
\* query, or when the query or JSON.parse raised
GetTaskStatus(obj, queryOk, info) ==
    IF Exists(obj) /\ queryOk
    THEN [exists |-> TRUE, enabled |-> info.state = "Ready",
          lastRunTime |-> info.lastRun]
    ELSE NoStatus

\* the "Last run" line of cron_list_tasks (mcp-server.ts 386-388) and of the
\* list command of the CLI; "" when the line is not printed
McpListLastRun(status) ==
    IF status.exists /\ status.lastRunTime # "" /\ status.lastRunTime # NeverRun
    THEN status.lastRunTime ELSE ""
CliListLastRun(status) ==
    IF status.exists /\ status.lastRunTime # "" THEN status.lastRunTime ELSE ""

\* what a scheduler call did: native calls made, and what the caller got
NoCall == [op |-> "none", id |-> "", schedule |-> <<>>, ok |-> FALSE,
           trigger |-> NoTrigger, script |-> "none", unlinks |-> 0,
           before |-> Unregistered, error |-> NoError, direct |-> 0,
           directError |-> NoError,
           elevations |-> 0, elevatedRuns |-> 0, queries |-> 0,
           found |-> FALSE, status |-> NoStatus, info |-> NoInfo,
           names |-> {}]

SchedInit ==
    /\ native = [name \in NativeNames |-> Unregistered]
    /\ tempScripts = {}
    /\ call = NoCall

Init == ExecInit /\ StoreInit /\ KeyInit /\ AuxInit /\ SchedInit

Next ==
    \/ ParseFails
    \/ RunDisabled
    \/ RunInvalid
    \/ RunCliWriteFails
    \/ RunCliSpawnThrows
    \/ RunCliSpawned
    \/ TimerFires
    \/ ChildClose
    \/ ChildError
    \/ RunApiNoKey
    \/ RunApiRequest
    \/ ApiSettles
    \/ NotifySettles

Spec == Init /\ [][Next]_vars

\* node's event loop runs the callback of a timer that stays armed; nothing
\* is assumed of the subprocess, the remote endpoint or the notifier
FairSpec == Spec /\ WF_vars(TimerFires)

(***************************************************************************)
(* Claims about executeTask                                                *)
(***************************************************************************)
Ended == pc \in {"done", "threw"}

HasStep(lg, action) == \E i \in 1..Len(lg.steps) : lg.steps[i].action = action

\* C1: when a call of executeTask has ended, exactly one signed record of
\* that execution is persisted (never zero, never two).  Stated for the
\* calls that return normally, so that a raised error is not what decides it.
C1_ExactlyOneSignedRecord == pc = "done" => Len(logsDir) = 1

\* C2: no error escapes executeTask: the call never ends by raising.
C2_NoErrorEscapes == pc # "threw"

\* C3: the status of a log is running until finalizeLog, becomes success or
\* failure in the one finalizeLog call of the execution and never changes
\* afterwards; no persisted record carries status running.
C3_StatusChangesOnce ==
    /\ [](log # NoLog => (log.status = "running" <=> finalizeCalls = 0))
    /\ [](finalizeCalls <= 1)
    /\ [](log # NoLog /\ pc \in {"waitNotify", "done", "threw"} => finalizeCalls = 1)
    /\ [](\A i \in 1..Len(logsDir) : logsDir[i].data.status \in {"success", "failure"})
    /\ [](\A i \in 1..Len(memorySkill) : memorySkill[i].status \in {"success", "failure"})
    /\ [][/\ log.status \in {"success", "failure"} => log'.status = log.status
          /\ log'.status # log.status /\ log'.status \in {"success", "failure"}
                => finalizeCalls' = finalizeCalls + 1]_vars

C3_Witness ==
    /\ finalizeCalls = 1 /\ log.status = "success"
    /\ Len(logsDir) = 1 /\ logsDir[1].data.status = "success"

\* C8: when the timer fires (the subprocess has not exited within the bound)
\* the subprocess is sent SIGTERM, a timeout step is in the log and the
\* record is finalized with status failure.
C8_TimeoutHandled ==
    timer = "fired" =>
        /\ killSent
        /\ HasStep(log, "Execution timeout")
        /\ finalizeCalls = 1
        /\ log.status = "failure"
        /\ result = Failure("Execution timeout after 5 minutes")
        /\ \A i \in 1..Len(logsDir) : logsDir[i].data.status = "failure"
        /\ \A i \in 1..Len(memorySkill) : memorySkill[i].status = "failure"

C8_Witness == timer = "fired" /\ child = "running" /\ Len(logsDir) = 1

\* the result each cli event resolves with when it is the first to fire
FirstEventResult ==
    /\ timer = "armed" /\ timer' = "fired"
          => result' = Failure("Execution timeout after 5 minutes")
    /\ child = "running" /\ child' = "errored"
          => result' = Failure("err.message")
    /\ child = "running" /\ child' = "closed"
          => result' \in {Success, Failure("Claude exited with code")}

\* C9: in a cli execution the first of exit, spawn error and timeout to fire
\* determines the result and the finalized status; a later event changes
\* neither the result nor what was persisted; after the exit the timer
\* never fires.
C9_FirstEventWins ==
    [][/\ pc = "waitCLI" /\ pc' # "waitCLI"
            => /\ FirstEventResult
               /\ log'.status = IF result'.success THEN "success" ELSE "failure"
       /\ result.settled
            => /\ result' = result
               /\ log'.status = log.status
               /\ finalizeCalls' = finalizeCalls
               /\ logsDir' = logsDir
               /\ memorySkill' = memorySkill
       /\ child = "closed" => timer' = timer]_vars

\* an exit that follows the timeout
C9_Witness ==
    /\ timer = "fired" /\ child = "closed"
    /\ result = Failure("Execution timeout after 5 minutes")
    /\ Len(logsDir) = 1

\* C10: every execution that starts waiting for its backend, in cli mode or
\* in api mode, eventually has its record finalized, whatever the subprocess
\* and the remote endpoint do, with only the timer fair.
C10_EveryExecutionFinalizes ==
    pc \in {"waitCLI", "waitAPI"} ~> finalizeCalls = 1

\* what holds of the cli mode alone: finalizeLog is eventually called and the
\* dispatch is left, with only the timer fair
C10_CliExecutionFinalizes ==
    pc = "waitCLI" ~> (finalizeCalls = 1 /\ pc \in {"waitNotify", "done", "threw"})

\* finalized by the timeout while the subprocess never exited
C10_Witness ==
    /\ timer = "fired" /\ child = "running" /\ finalizeCalls = 1
    /\ pc \in {"waitNotify", "done"}

\* C11: when a cli execution has returned, on whatever path, its temporary
\* instruction file no longer exists.
C11_TempFileRemoved ==
    pc = "done" /\ task.invocation = "cli" => tempFile = "absent"

SkippedTrace == <<"Task execution started", "Task skipped - disabled">>
ActionsOf(lg) == [i \in 1..Len(lg.steps) |-> lg.steps[i].action]

\* C12 as claimed: the finalized record of a disabled task has a step trace
\* of one step, the skipped step.
C12_SingleSkippedStep ==
    ~task.enabled /\ finalizeCalls = 1
        => ActionsOf(log) = <<"Task skipped - disabled">>

\* C12 amended: an execution of a disabled task spawns no subprocess and
\* makes no API request, and its record is finalized with status failure and
\* the start step followed by one skipped step.
C12_DisabledSkipped ==
    ~task.enabled =>
        /\ spawns = 0 /\ apiCalls = 0 /\ child = "none"
        /\ log # NoLog =>
              /\ finalizeCalls = 1
              /\ log.status = "failure"
              /\ ActionsOf(log) = SkippedTrace
        /\ \A i \in 1..Len(logsDir) : logsDir[i].data.status = "failure"

C12_Witness ==
    /\ ~task.enabled /\ pc = "done" /\ ActionsOf(log) = SkippedTrace
    /\ Len(logsDir) = 1

\* C13: a cli execution whose subprocess exits before the timeout (and
\* before any error event) finalizes with status success exactly when the
\* exit code is zero; a non-zero code or no code finalizes as failure.
C13_SuccessIffExitZero ==
    [][child = "running" /\ child' = "closed" /\ timer = "armed"
          => /\ result'.settled
             /\ result'.success <=> exitCode' = "0"
             /\ finalizeCalls' = 1
             /\ log'.status = IF exitCode' = "0" THEN "success" ELSE "failure"
             /\ \A i \in 1..Len(logsDir') :
                   logsDir'[i].data.status = log'.status]_vars

\* killed by a signal before the timeout: no exit code, finalized as failure
C13_Witness ==
    /\ child = "closed" /\ exitCode = "null" /\ timer = "cleared"
    /\ log.status = "failure" /\ Len(logsDir) = 1

CredentialMissing == "ANTHROPIC_API_KEY environment variable not set"

\* C14: an api execution with no credential in the environment issues no
\* request, has a step whose error says the credential is missing, and is
\* finalized with status failure.
C14_NoCredentialNoRequest ==
    task.enabled /\ task.invocation = "api" /\ ~apiKey =>
        /\ apiCalls = 0
        /\ log # NoLog =>
              /\ \E i \in 1..Len(log.steps) : log.steps[i].error = CredentialMissing
              /\ finalizeCalls = 1
              /\ log.status = "failure"
              /\ result = Failure(CredentialMissing)
        /\ \A i \in 1..Len(logsDir) : logsDir[i].data.status = "failure"

C14_Witness ==
    /\ task.invocation = "api" /\ ~apiKey /\ pc = "done"
    /\ log.status = "failure" /\ Len(logsDir) = 1

\* C15: an execution of a task with notifications.toast triggers the
\* notification exactly once on every path, an execution of a task without
\* it never.
C15_NotifiedOncePerExecution ==
    pc = "done" => notified = (IF task.toast THEN 1 ELSE 0)

\* C16: the notification is attempted only after finalizeLog has returned
\* with the record stored, and a failing notification changes neither what
\* is stored nor the outcome: executeTask still returns normally.
C16_NotificationFailureContained ==
    /\ [](notified >= 1 =>
            /\ notified = 1
            /\ finalizeCalls = 1
            /\ log.status \in {"success", "failure"}
            /\ Len(logsDir) + Len(memorySkill) = 1
            /\ pc \in {"waitNotify", "done"})
    /\ [](notice = "failed" => pc = "done")
    /\ [][notice' = "failed" /\ notice # "failed"
            => /\ pc = "waitNotify" /\ pc' = "done"
               /\ logsDir' = logsDir /\ memorySkill' = memorySkill
               /\ log' = log /\ result' = result
               /\ finalizeCalls' = finalizeCalls]_vars

C16_Witness ==
    /\ notice = "failed" /\ pc = "done" /\ notified = 1
    /\ Len(logsDir) = 1 /\ logsDir[1].data.status = log.status

(***************************************************************************)
(* LogSpec: finalizeLog on an arbitrary log, changes made to the persisted *)
(* document afterwards, and verifyLogFile                                  *)
(***************************************************************************)
MaxSteps == 2

LogTaskIds == {"t1"}
Keys       == {"k1", "k2"}

\* the steps addLogStep can have appended: with and without output / error
StepSamples ==
    {[action |-> "act", output |-> "", error |-> ""],
     [action |-> "act", output |-> "out", error |-> ""],
     [action |-> "act", output |-> "", error |-> "err"]}

RECURSIVE SeqsUpTo(_, _)
SeqsUpTo(S, n) ==
    IF n = 0 THEN {<<>>}
    ELSE LET shorter == SeqsUpTo(S, n - 1)
         IN  shorter \cup {Append(q, x) : q \in shorter, x \in S}

RunningLogs ==
    {[taskId |-> t, status |-> "running", steps |-> st] :
        t \in LogTaskIds, st \in SeqsUpTo(StepSamples, MaxSteps)}

\* what an edit of the persisted file can put into the body
EditTokens == {NL, "x"}

\* the body of a persisted document: the text after the delimiter line
BodyOf(doc) == Tail(doc.raw)

InsertAt(str, i, tok) == SubSeq(str, 1, i - 1) \o <<tok>> \o SubSeq(str, i, Len(str))
DeleteAt(str, i)      == SubSeq(str, 1, i - 1) \o SubSeq(str, i + 1, Len(str))
ReplaceAt(str, i, tok) == [str EXCEPT ![i] = tok]

ExecFrozen ==
    UNCHANGED <<pc, task, apiKey, result, tempFile, child, exitCode,
                   killSent, timer, spawns, apiCalls, notified, notice,
                   schedVars, auxVars>>

\* finalizeLog(log, success)
LogFinalize ==
    /\ log.status = "running"
    /\ \E success \in BOOLEAN, o \in SaveOutcomes :
          /\ FinalizeLog(log, success, o)
          /\ original' = IF o = "fallbackOk" THEN logsDir'[1] ELSE original
    /\ signedWith' = secretKey
    /\ UNCHANGED <<secretKey, verdict>>
    /\ ExecFrozen

\* someone edits the body of the persisted file: one token inserted, removed
\* or replaced
TamperBody ==
    /\ ~verdict.checked
    /\ Len(logsDir) = 1 /\ logsDir[1].raw = original.raw
    /\ \E i \in 1..(Len(BodyOf(original)) + 1), tok \in EditTokens,
          op \in {"insert", "delete", "replace"} :
          LET body == BodyOf(original)
              edited == CASE op = "insert"  -> InsertAt(body, i, tok)
                          [] op = "delete"  -> DeleteAt(body, i)
                          [] op = "replace" -> ReplaceAt(body, i, tok)
          IN  /\ op # "insert" => i <= Len(body)
              /\ edited # body
              /\ logsDir' = [logsDir EXCEPT ![1].raw = <<NL>> \o edited]
    /\ UNCHANGED <<log, finalizeCalls, memorySkill, keyVars>>
    /\ ExecFrozen

\* someone edits the status in the metadata header of the persisted file
TamperStatus ==
    /\ ~verdict.checked
    /\ Len(logsDir) = 1 /\ logsDir[1].data = original.data
    /\ logsDir' = [logsDir EXCEPT ![1].data.status =
                      IF @ = "failure" THEN "success" ELSE "failure"]
    /\ UNCHANGED <<log, finalizeCalls, memorySkill, keyVars>>
    /\ ExecFrozen

\* someone removes the signature line from the header
DropSignature ==
    /\ ~verdict.checked
    /\ Len(logsDir) = 1 /\ "signature" \in DOMAIN logsDir[1].data
    /\ logsDir' = [logsDir EXCEPT ![1].data =
                      [taskId |-> @.taskId, status |-> @.status]]
    /\ UNCHANGED <<log, finalizeCalls, memorySkill, keyVars>>
    /\ ExecFrozen

\* someone empties the value of the signature line
BlankSignature ==
    /\ ~verdict.checked
    /\ Len(logsDir) = 1 /\ HasSignature(logsDir[1].data)
    /\ logsDir[1].data.signature # NoSignature
    /\ logsDir' = [logsDir EXCEPT ![1].data.signature = NoSignature]
    /\ UNCHANGED <<log, finalizeCalls, memorySkill, keyVars>>
    /\ ExecFrozen

\* someone turns the header into text that is not YAML
BreakHeader ==
    /\ ~verdict.checked
    /\ Len(logsDir) = 1 /\ ~MatterThrows(logsDir[1])
    /\ logsDir' = [logsDir EXCEPT ![1].data = [broken |-> TRUE]]
    /\ UNCHANGED <<log, finalizeCalls, memorySkill, keyVars>>
    /\ ExecFrozen

\* the persisted configuration is lost and a new key generated
RotateKey ==
    /\ ~verdict.checked /\ secretKey = "k1"
    /\ \E k \in Keys \ {secretKey} : secretKey' = k
    /\ UNCHANGED <<log, finalizeCalls, storeVars, signedWith, original,
                   verdict>>
    /\ ExecFrozen

\* verifyLogFile on the persisted file as it is now (the last step of a run)
Verify ==
    /\ ~verdict.checked
    /\ Len(logsDir) = 1
    /\ verdict' = [checked |-> TRUE, doc |-> logsDir[1], key |-> secretKey,
                   res |-> VerifyLogFile(logsDir[1], secretKey)]
    /\ UNCHANGED <<log, finalizeCalls, storeVars, secretKey, signedWith,
                   original>>
    /\ ExecFrozen

LogInit ==
    /\ pc = "logger"
    /\ task = [id |-> "t1", enabled |-> TRUE, invocation |-> "cli", toast |-> FALSE]
    /\ apiKey = FALSE
    /\ log \in RunningLogs
    /\ result = NoResult
    /\ finalizeCalls = 0
    /\ tempFile = "absent"
    /\ child = "none"
    /\ exitCode = "none"
    /\ killSent = FALSE
    /\ timer = "unset"
    /\ spawns = 0
    /\ apiCalls = 0
    /\ notified = 0
    /\ notice = "none"
    /\ StoreInit /\ KeyInit /\ AuxInit /\ SchedInit

LogNext ==
    \/ LogFinalize
    \/ TamperBody
    \/ TamperStatus
    \/ DropSignature
    \/ BlankSignature
    \/ BreakHeader
    \/ RotateKey
    \/ Verify

LogSpec == LogInit /\ [][LogNext]_vars

\* C4: the document finalizeLog rendered, signed and persisted is reported
\* valid by verifyLogFile when it is given unchanged and the key is the one
\* it was signed with.
C4_RoundTrip ==
    (verdict.checked /\ verdict.doc = original /\ verdict.key = signedWith)
        => verdict.res.valid

\* a log with steps carrying output and error, persisted and verified as is
C4_Witness ==
    /\ verdict.checked /\ verdict.doc = original /\ verdict.key = signedWith
    /\ Len(log.steps) = 2 /\ log.steps[1].output # "" /\ log.steps[2].error # ""
    /\ verdict.res.valid

\* C5: a persisted document whose body was modified in any way is reported
\* invalid by verifyLogFile.
C5_BodyChangeDetected ==
    (verdict.checked /\ original # NoDoc /\ BodyOf(verdict.doc) # BodyOf(original))
        => ~verdict.res.valid

\* a whitespace-only edit of the body, verified with the signing key and an
\* untouched header
C5_Witness ==
    /\ verdict.checked /\ original # NoDoc
    /\ verdict.key = signedWith /\ verdict.doc.data = original.data
    /\ \E i \in 1..(Len(BodyOf(original)) + 1) :
          BodyOf(verdict.doc) = InsertAt(BodyOf(original), i, NL)
    /\ verdict.res.error = "Signature verification failed"

(***************************************************************************)
(* SchedSpec: calls of the registrar against the native scheduler          *)
(***************************************************************************)
AllFrozen == UNCHANGED <<execVars, storeVars, keyVars, auxVars>>

\* what the elevated PowerShell run did: it registered the task, its script
\* failed, or the elevation request was refused (Start-Process raises)
ElevatedOutcomes == {"registered", "scriptFailed", "cancelled"}

\* registerTask 499-531 reporting success without the confirmation query
ElevateUnconfirmed(id, cronExpr, base, writeOk, elev, queryOk, unlinkOk) ==
    LET c == [base EXCEPT !.elevations = 1]
    IN  IF ~writeOk
        THEN [native |-> native, scripts |-> tempScripts,
              call |-> [c EXCEPT !.error = ErrorOf("EACCES")]]
        ELSE
        LET after == IF elev = "registered"
                     THEN [native EXCEPT ![TaskName(id)] = Registered("Enabled", cronExpr)]
                     ELSE native
            left  == IF unlinkOk THEN tempScripts ELSE tempScripts \cup {id}
            ran   == [c EXCEPT !.elevatedRuns = 1, !.unlinks = 1,
                               !.script = IF unlinkOk THEN "removed" ELSE "left"]
        IN  IF elev = "cancelled"
            THEN [native |-> after, scripts |-> left,
                  call |-> [ran EXCEPT !.error = ErrorOf("Command failed")]]
            ELSE [native |-> after, scripts |-> left,
                  call |-> [ran EXCEPT !.ok = TRUE]]

\* an elevation fallback that removes its script only when nothing raised
ElevateCleanupOnSuccessOnly(id, cronExpr, base, writeOk, elev, queryOk, unlinkOk) ==
    LET c == [base EXCEPT !.elevations = 1]
    IN  IF ~writeOk
        THEN [native |-> native, scripts |-> tempScripts,
              call |-> [c EXCEPT !.error = ErrorOf("EACCES")]]
        ELSE
        LET after == IF elev = "registered"
                     THEN [native EXCEPT ![TaskName(id)] = Registered("Enabled", cronExpr)]
                     ELSE native
            kept  == tempScripts \cup {id}
            ran   == [c EXCEPT !.elevatedRuns = 1, !.script = "left"]
        IN  IF elev = "cancelled"
            THEN [native |-> after, scripts |-> kept,
                  call |-> [ran EXCEPT !.error = ErrorOf("Command failed")]]
            ELSE IF ~queryOk
            THEN [native |-> after, scripts |-> kept,
                  call |-> [ran EXCEPT !.queries = 1,
                                       !.error = ErrorOf("Command failed")]]
            ELSE IF Exists(after[TaskName(id)])
            THEN [native |-> after,
                  scripts |-> IF unlinkOk THEN tempScripts ELSE kept,
                  call |-> [ran EXCEPT !.queries = 1, !.found = TRUE, !.ok = TRUE,
                               !.unlinks = 1,
                               !.script = IF unlinkOk THEN "removed" ELSE "left"]]
            ELSE [native |-> after, scripts |-> kept,
                  call |-> [ran EXCEPT !.queries = 1,
                      !.error = ErrorOf("Task registration was cancelled or failed")]]

\* registerTask 499-531: the elevation fallback
Elevate(id, cronExpr, base, writeOk, elev, queryOk, unlinkOk) ==
    LET c == [base EXCEPT !.elevations = 1]
    IN  IF ~writeOk
        THEN \* writeFileSync of the script raises (504)
             [native |-> native, scripts |-> tempScripts,
              call |-> [c EXCEPT !.error = ErrorOf("EACCES")]]
        ELSE
        LET after == IF elev = "registered"
                     THEN [native EXCEPT ![TaskName(id)] = Registered("Enabled", cronExpr)]
                     ELSE native
            \* finally 523-528: the unlink may fail silently; the file name
            \* holds Date.now(), so scripts left by earlier calls stay
            left  == IF unlinkOk THEN tempScripts ELSE tempScripts \cup {id}
            ran   == [c EXCEPT !.elevatedRuns = 1, !.unlinks = 1,
                               !.script = IF unlinkOk THEN "removed" ELSE "left",
                               !.names = @ \cup {TaskName(id)}]
            \* the confirmation query (515) names the object once more
            asked == [ran EXCEPT !.queries = 1, !.names = @ \cup {TaskName(id)}]
        IN  IF elev = "cancelled"
            THEN [native |-> after, scripts |-> left,
                  call |-> [ran EXCEPT !.error = ErrorOf("Command failed")]]
            ELSE IF ~queryOk
            THEN \* the confirmation query itself raises (516)
                 [native |-> after, scripts |-> left,
                  call |-> [asked EXCEPT !.error = ErrorOf("Command failed")]]
            ELSE IF Exists(after[TaskName(id)])
            THEN [native |-> after, scripts |-> left,
                  call |-> [asked EXCEPT !.found = TRUE, !.ok = TRUE]]
            ELSE [native |-> after, scripts |-> left,
                  call |-> [asked EXCEPT
                      !.error = ErrorOf("Task registration was cancelled or failed")]]

\* a register that tries the native scheduler before it looks at the schedule
RegisterTaskValidatesLate(id, cronExpr, direct, writeOk, elev, queryOk, unlinkOk) ==
    LET parsed == ParseCronExpression(cronExpr)
        base == [NoCall EXCEPT !.op = "register", !.id = id,
                               !.schedule = cronExpr, !.before = native[TaskName(id)],
                               !.trigger = parsed.trigger, !.direct = 1]
    IN  IF direct = NoError
        THEN [native |-> [native EXCEPT ![TaskName(id)] = Registered("Enabled", cronExpr)],
              scripts |-> tempScripts,
              call |-> [base EXCEPT !.ok = TRUE]]
        ELSE IF ~CronValid(cronExpr)
        THEN [native |-> native, scripts |-> tempScripts,
              call |-> [base EXCEPT !.directError = direct,
                                    !.error = ErrorOf(parsed.error)]]
        ELSE [native |-> native, scripts |-> tempScripts,
              call |-> [base EXCEPT !.directError = direct, !.error = direct]]

\* registerTask 441-537; direct is NoError or the error the direct attempt
\* raised
RegisterTask(id, cronExpr, direct, writeOk, elev, queryOk, unlinkOk) ==
    LET parsed == ParseCronExpression(cronExpr)
        base == [NoCall EXCEPT !.op = "register", !.id = id,
                               !.schedule = cronExpr, !.before = native[TaskName(id)],
                               !.trigger = parsed.trigger]
    IN  IF ~CronValid(cronExpr)
        THEN [native |-> native, scripts |-> tempScripts,
              call |-> [base EXCEPT !.error = ErrorOf(parsed.error)]]
        ELSE IF direct = NoError
        THEN [native |-> [native EXCEPT ![TaskName(id)] = Registered("Enabled", cronExpr)],
              scripts |-> tempScripts,
              call |-> [base EXCEPT !.direct = 1, !.ok = TRUE,
                                    !.names = {TaskName(id)}]]
        ELSE IF IsAccessDenied(direct)
        THEN Elevate(id, cronExpr,
                     [base EXCEPT !.direct = 1, !.directError = direct,
                                  !.names = {TaskName(id)}],
                     writeOk, elev, queryOk, unlinkOk)
        ELSE [native |-> native, scripts |-> tempScripts,
              call |-> [base EXCEPT !.direct = 1, !.directError = direct,
                                    !.error = direct,
                                    !.names = {TaskName(id)}]]

\* what the environment does during the elevation fallback, one entry per
\* distinguishable run: nothing after a failed script write is looked at, nor
\* the query after a cancelled prompt, nor any of it when the direct attempt
\* does not lead to the fallback
ElevationRuns(cronExpr, direct) ==
    IF CronValid(cronExpr) /\ IsAccessDenied(direct)
    THEN {e \in [writeOk : BOOLEAN, elev : ElevatedOutcomes, queryOk : BOOLEAN,
                 unlinkOk : BOOLEAN] :
            /\ ~e.writeOk => e.elev = "registered" /\ e.queryOk /\ e.unlinkOk
            /\ e.elev = "cancelled" => e.queryOk}
    ELSE {[writeOk |-> TRUE, elev |-> "registered", queryOk |-> TRUE,
           unlinkOk |-> TRUE]}

Register ==
    /\ call.op = "none"
    /\ \E id \in SchedIds, cronExpr \in Schedules,
          direct \in ExecErrors \cup {NoError} :
          \E e \in ElevationRuns(cronExpr, direct) :
             LET r == RegisterTask(id, cronExpr, direct, e.writeOk, e.elev,
                                   e.queryOk, e.unlinkOk)
             IN  /\ native' = r.native
                 /\ tempScripts' = r.scripts
                 /\ call' = r.call
    /\ AllFrozen

\* a native call that is made a second time when the first attempt failed
NativeCallRetries(op, id, nativeOk, becomes) ==
    LET base == [NoCall EXCEPT !.op = op, !.id = id, !.before = native[TaskName(id)],
                               !.direct = 1]
    IN  IF Exists(native[TaskName(id)]) /\ nativeOk
        THEN /\ native' = [native EXCEPT ![TaskName(id)] = becomes]
             /\ call' = [base EXCEPT !.ok = TRUE]
        ELSE IF Exists(native[TaskName(id)])
        THEN /\ native' = [native EXCEPT ![TaskName(id)] = becomes]
             /\ call' = [base EXCEPT !.direct = 2, !.ok = TRUE]
        ELSE /\ native' = native
             /\ call' = [base EXCEPT !.direct = 2,
                                     !.error = ErrorOf("Command failed")]

\* one native call by the derived name; it fails when the object does not
\* exist and may fail for any other reason
NativeCall(op, id, nativeOk, becomes) ==
    LET base == [NoCall EXCEPT !.op = op, !.id = id, !.before = native[TaskName(id)],
                               !.direct = 1, !.names = {TaskName(id)}]
    IN  IF Exists(native[TaskName(id)]) /\ nativeOk
        THEN /\ native' = [native EXCEPT ![TaskName(id)] = becomes]
             /\ call' = [base EXCEPT !.ok = TRUE]
        ELSE /\ native' = native
             /\ call' = [base EXCEPT !.error = ErrorOf("Command failed")]

\* unregisterTask 542-557
Unregister ==
    /\ call.op = "none"
    /\ \E id \in SchedIds, nativeOk \in BOOLEAN :
          NativeCall("unregister", id, nativeOk, Unregistered)
    /\ UNCHANGED tempScripts
    /\ AllFrozen

\* enableTask 562-577
Enable ==
    /\ call.op = "none"
    /\ \E id \in SchedIds, nativeOk \in BOOLEAN :
          NativeCall("enable", id, nativeOk, [native[TaskName(id)] EXCEPT !.state = "Enabled"])
    /\ UNCHANGED tempScripts
    /\ AllFrozen

\* disableTask 582-597
Disable ==
    /\ call.op = "none"
    /\ \E id \in SchedIds, nativeOk \in BOOLEAN :
          NativeCall("disable", id, nativeOk, [native[TaskName(id)] EXCEPT !.state = "Disabled"])
    /\ UNCHANGED tempScripts
    /\ AllFrozen

\* getTaskStatus 602-629: State 'Ready' is reported as enabled; info is what
\* the native scheduler holds for the object at the time of the query
Status ==
    /\ call.op = "none"
    /\ \E id \in SchedIds, queryOk \in BOOLEAN :
          \E st \in NativeStates(native[TaskName(id)]), lastRun \in LastRunTimes :
             LET info == [state |-> st, lastRun |-> lastRun]
             IN  /\ ~Exists(native[TaskName(id)]) \/ ~queryOk => lastRun = NeverRun
                 /\ call' = [NoCall EXCEPT !.op = "status", !.id = id, !.ok = TRUE,
                               !.before = native[TaskName(id)], !.queries = 1,
                               !.names = {TaskName(id)},
                               !.info = IF Exists(native[TaskName(id)])
                                        THEN info ELSE NoInfo,
                               !.status = GetTaskStatus(native[TaskName(id)],
                                                        queryOk, info)]
    /\ UNCHANGED <<native, tempScripts>>
    /\ AllFrozen

\* the scheduler function has returned or raised and its caller has taken the
\* outcome; the next call starts with no record of this one
Returned ==
    /\ pc = "scheduler" /\ call.op # "none"
    /\ call' = NoCall
    /\ UNCHANGED <<native, tempScripts>>
    /\ AllFrozen

SchedStart ==
    /\ pc = "scheduler"
    /\ task = [id |-> "t1", enabled |-> TRUE, invocation |-> "cli", toast |-> FALSE]
    /\ apiKey = FALSE
    /\ log = NoLog
    /\ result = NoResult
    /\ finalizeCalls = 0
    /\ tempFile = "absent"
    /\ child = "none"
    /\ exitCode = "none"
    /\ killSent = FALSE
    /\ timer = "unset"
    /\ spawns = 0
    /\ apiCalls = 0
    /\ notified = 0
    /\ notice = "none"
    /\ StoreInit /\ KeyInit /\ AuxInit /\ SchedInit

SchedNext ==
    \/ Register
    \/ Unregister
    \/ Enable
    \/ Disable
    \/ Status
    \/ Returned

SchedSpec == SchedStart /\ [][SchedNext]_vars

\* the permission-denied signatures, looked for in either text of the error
DeniedSignatures == {"Access is denied", "0x80070005", "PermissionDenied"}
MatchesDenied(err) ==
    \E phrase \in DeniedSignatures :
        Includes(err.message, phrase) \/ Includes(err.stderr, phrase)

\* C6: a direct registration failure with a permission-denied text starts
\* the elevation fallback exactly once, and register then succeeds exactly
\* when the query after the elevated run found the native object.
C6_ElevationOnceAndConfirmed ==
    (call.op = "register" /\ call.direct = 1 /\ MatchesDenied(call.directError)
        => call.elevations = 1)
    /\ (call.op = "register" /\ call.elevations >= 1 =>
          /\ MatchesDenied(call.directError)
          /\ call.elevations = 1
          /\ call.elevatedRuns <= 1
          /\ call.queries <= call.elevatedRuns
          /\ call.ok <=> (call.queries = 1 /\ call.found)
          /\ call.found => Exists(native[TaskName(call.id)])
          /\ call.ok => Exists(native[TaskName(call.id)]))

\* the elevated run registered the task and the query confirmed it
C6_Witness ==
    /\ call.op = "register" /\ Includes(call.directError.stderr, "Access is denied")
    /\ call.elevations = 1 /\ call.elevatedRuns = 1
    /\ call.queries = 1 /\ call.found /\ call.ok
    /\ ~Exists(call.before) /\ native[TaskName(call.id)].state = "Enabled"

\* C7: a successful register leaves the native object Registered(Enabled), a
\* successful disable moves Registered(Enabled) to Registered(Disabled), a
\* successful enable moves it back, a successful unregister leaves it
\* Unregistered, status changes nothing.
C7_StateMachine ==
    /\ call.op = "register" /\ call.ok => native[TaskName(call.id)].state = "Enabled"
    /\ call.op = "disable" /\ call.ok
          => Exists(call.before) /\ native[TaskName(call.id)].state = "Disabled"
    /\ call.op = "enable" /\ call.ok
          => Exists(call.before) /\ native[TaskName(call.id)].state = "Enabled"
    /\ call.op = "unregister" /\ call.ok => native[TaskName(call.id)] = Unregistered
    /\ call.op = "status" => native[TaskName(call.id)] = call.before

\* C17: register with a cron expression parseCronExpression rejects fails with
\* the schedule error before any native call: no direct attempt, no
\* elevation, no query, no script, and the native state is unchanged.
C17_InvalidScheduleFailsFirst ==
    /\ [](call.op = "register" /\ ~CronValid(call.schedule) =>
            /\ ~call.ok
            /\ call.error = ErrorOf("Invalid cron expression")
            /\ call.direct = 0 /\ call.elevations = 0 /\ call.elevatedRuns = 0
            /\ call.queries = 0 /\ call.script = "none"
            /\ native[TaskName(call.id)] = call.before)
    /\ [][call'.op = "register" /\ ~CronValid(call'.schedule)
            => native' = native /\ tempScripts' = tempScripts]_vars

\* a rejected schedule for a task that stays registered as it was
C17_Witness ==
    /\ call.op = "register" /\ ~CronValid(call.schedule) /\ ~call.ok
    /\ Exists(call.before) /\ native[TaskName(call.id)].schedule # call.schedule

\* C18: a direct failure that matches no permission-denied signature starts
\* no elevation, writes no temporary script, and reaches the caller as the
\* same error.
C18_OtherErrorsPropagate ==
    /\ [](/\ call.op = "register" /\ call.direct = 1
          /\ call.directError # NoError /\ ~MatchesDenied(call.directError)
          => /\ ~call.ok
             /\ call.error = call.directError
             /\ call.elevations = 0 /\ call.elevatedRuns = 0
             /\ call.queries = 0 /\ call.script = "none" /\ call.unlinks = 0
             /\ native[TaskName(call.id)] = call.before)
    /\ [][/\ call'.op = "register"
          /\ call'.directError # NoError /\ ~MatchesDenied(call'.directError)
          => native' = native /\ tempScripts' = tempScripts]_vars

C18_Witness ==
    /\ call.op = "register"
    /\ Includes(call.directError.stderr, "The parameter is incorrect")
    /\ call.error = call.directError /\ ~call.ok

CronExprs ==
    {<<mi, h, dom, mo, dow>> : mi \in MinuteTokens, h \in HourTokens,
        dom \in DomTokens, mo \in MonthTokens, dow \in DowTokens}
    \cup {<<"0", "0", "9", "*", "*", "*">>, <<"0", "", "9", "*", "*", "*">>,
          <<"0", "9", "*", "*">>, <<"61", "9", "*", "*", "*">>, <<"a", "b", "c">>}

\* parseCronExpression applied to the expression drawn at the start
Translate ==
    /\ pc = "translate" /\ call.op = "none"
    /\ LET r == ParseCronExpression(call.schedule)
       IN  call' = [call EXCEPT !.op = "translate", !.ok = r.ok,
                                !.error = ErrorOf(r.error),
                                !.trigger = r.trigger]
    /\ UNCHANGED <<native, tempScripts>>
    /\ AllFrozen

CronStart ==
    /\ pc = "translate"
    /\ task = [id |-> "t1", enabled |-> TRUE, invocation |-> "cli", toast |-> FALSE]
    /\ apiKey = FALSE
    /\ log = NoLog
    /\ result = NoResult
    /\ finalizeCalls = 0
    /\ tempFile = "absent"
    /\ child = "none"
    /\ exitCode = "none"
    /\ killSent = FALSE
    /\ timer = "unset"
    /\ spawns = 0
    /\ apiCalls = 0
    /\ notified = 0
    /\ notice = "none"
    /\ StoreInit /\ KeyInit /\ AuxInit
    /\ native = [name \in NativeNames |-> Unregistered]
    /\ tempScripts = {}
    /\ call \in {[NoCall EXCEPT !.schedule = e] : e \in CronExprs}

CronNext == Translate

CronSpec == CronStart /\ [][CronNext]_vars

\* C20: an accepted expression is weekly when its day-of-week field is not
\* '*', otherwise monthly when its day-of-month field is not '*', otherwise
\* daily; the month field never influences the result.
C20_ClassifiedByDayFields ==
    call.op = "translate" /\ call.ok =>
        /\ Len(call.schedule) = 5
        /\ call.trigger.type =
              (IF call.schedule[5] # "*" THEN "weekly"
               ELSE IF call.schedule[3] # "*" THEN "monthly" ELSE "daily")
        /\ \A mo \in MonthTokens :
              ParseCronExpression([call.schedule EXCEPT ![4] = mo]).trigger
                 = call.trigger

\* a schedule restricted to a month, with no day named: daily all the same
C20_Witness ==
    /\ call.op = "translate" /\ call.ok
    /\ call.schedule[4] = "6" /\ call.schedule[3] = "*" /\ call.schedule[5] = "*"
    /\ call.trigger.type = "daily"

\* a field that is one plain number, and its two-digit form
PlainNumbers == {"0", "8", "9", "30"}
TwoDigits(tok) ==
    CASE tok = "0" -> "00"
      [] tok = "8" -> "08"
      [] tok = "9" -> "09"
      [] tok = "30" -> "30"

\* the 24-hour HH:MM strings
WellFormedTimes ==
    {PadStart2(ToString(h)) \o ":" \o PadStart2(ToString(m)) :
        h \in 0..23, m \in 0..59}

\* C21: the time is the zero-padded HH:MM of the hour and minute fields when
\* both are numbers, 00:00 when either is '*', and an HH:MM in every other
\* case; "0 9 * * *" gives daily at 09:00 and "*/15 * * * *" daily at 00:00.
C21_TimeFromHourAndMinute ==
    call.op = "translate" /\ call.ok =>
        LET minute == call.schedule[1]
            hour == call.schedule[2]
        IN  /\ minute \in PlainNumbers /\ hour \in PlainNumbers
                  => call.trigger.time = TwoDigits(hour) \o ":" \o TwoDigits(minute)
            /\ minute = "*" \/ hour = "*" => call.trigger.time = "00:00"
            /\ call.trigger.time \in WellFormedTimes
            /\ call.schedule = <<"0", "9", "*", "*", "*">>
                  => call.trigger = [type |-> "daily", time |-> "09:00", days |-> <<>>]
            /\ call.schedule = <<"*/15", "*", "*", "*", "*">>
                  => call.trigger = [type |-> "daily", time |-> "00:00", days |-> <<>>]

\* the weekday codes a day-of-week field names, in order
ExpectedDays(dow) ==
    CASE dow \in {"0", "7"} -> <<"SUN">>
      [] dow = "1" -> <<"MON">>
      [] dow = "1,3" -> <<"MON", "WED">>
      [] dow = "1-5" -> <<"MON", "TUE", "WED", "THU", "FRI">>

\* C22: a weekly expression gets the weekday codes of the days its
\* day-of-week field names, in order: "30 8 * * 1-5" gives MON..FRI at 08:30,
\* "0 0 * * 0" gives SUN at 00:00, and 0 and 7 both give SUN.
C22_WeekdaysOfField ==
    call.op = "translate" /\ call.ok /\ call.trigger.type = "weekly" =>
        call.trigger.days = ExpectedDays(call.schedule[5])

\* C23: the time of every accepted expression, a step, range or comma list
\* in the minute or hour field included, is a well-formed 24-hour HH:MM.
C23_TimeWellFormed ==
    call.op = "translate" /\ call.ok => call.trigger.time \in WellFormedTimes

\* C24: the trigger a register installs has the kind and the time of the
\* ScheduleTrigger of its schedule and, for weekly, the same weekdays.
C24_InstalledFromTranslation ==
    call.op = "register" /\ call.ok /\ call.elevations = 0 =>
        LET trigger == ParseCronExpression(call.schedule).trigger
            installed == native[TaskName(call.id)].installed
        IN  /\ installed.kind = trigger.type
            /\ installed.at = trigger.time
            /\ trigger.type = "weekly" => installed.daysOfWeek = trigger.days

\* C25: the trigger installed for a schedule classified monthly is a monthly
\* trigger on calendar day 1.
C25_MonthlyOnDayOne ==
    /\ call.op = "register" /\ call.ok /\ call.elevations = 0
    /\ ParseCronExpression(call.schedule).trigger.type = "monthly"
    => /\ native[TaskName(call.id)].installed.kind = "monthly"
       /\ native[TaskName(call.id)].installed.daysOfMonth = <<1>>

SingleCallOps == {"unregister", "enable", "disable"}

\* C30: unregister, enable and disable make one native call for the task id;
\* when it fails (always so for an Unregistered id) the caller gets the error,
\* nothing is retried or elevated, and the native state stays as it was.
C30_SingleCallFailurePropagates ==
    /\ [](call.op \in SingleCallOps =>
            /\ call.id \in SchedIds
            /\ call.direct = 1 /\ call.elevations = 0 /\ call.elevatedRuns = 0
            /\ call.queries = 0 /\ call.script = "none" /\ call.unlinks = 0
            /\ ~Exists(call.before) => ~call.ok
            /\ ~call.ok => call.error # NoError /\ native[TaskName(call.id)] = call.before
            /\ call.ok => call.error = NoError)
    /\ [][call'.op \in SingleCallOps /\ ~call'.ok
            => native' = native /\ tempScripts' = tempScripts]_vars
    /\ [][call'.op \in SingleCallOps
            => \A other \in NativeNames \ {TaskName(call'.id)} :
                  native'[other] = native[other]]_vars

\* enable of a disabled task fails in the native scheduler: the task stays
\* disabled and the caller has the error
C30_Witness ==
    /\ call.op = "enable" /\ ~call.ok /\ call.error = ErrorOf("Command failed")
    /\ call.before.state = "Disabled" /\ native[TaskName(call.id)] = call.before
    /\ call.direct = 1

\* C27: verifyLogFile never raises; a document with no signature (no field,
\* or a field with no value) is invalid with the no-signature reason, a
\* document whose signature does not match its body is invalid with the
\* mismatch reason, and neither reason is given in the other case.
C27_NoSignatureIsNotMismatch ==
    /\ verdict.checked => ~verdict.res.raised
    /\ verdict.checked /\ MatterThrows(verdict.doc) => ~verdict.res.valid
    /\ verdict.checked /\ ~MatterThrows(verdict.doc) =>
        LET data == verdict.doc.data
            unsigned == ~HasSignature(data) \/ data.signature = NoSignature
            matches == /\ ~unsigned
                       /\ data.signature
                             = <<verdict.key, MatterParse(verdict.doc).content>>
        IN  /\ unsigned <=> verdict.res.error = "No signature found in log file"
            /\ ~unsigned /\ ~matches
                  <=> verdict.res.error = "Signature verification failed"
            /\ verdict.res.error # "" <=> ~verdict.res.valid

\* the signature line was removed and the body edited as well: the reason is
\* still the missing signature
C27_Witness ==
    /\ verdict.checked /\ original # NoDoc
    /\ ~HasSignature(verdict.doc.data)
    /\ BodyOf(verdict.doc) # BodyOf(original)
    /\ ~verdict.res.valid
    /\ verdict.res.error = "No signature found in log file"

(***************************************************************************)
(* StepSpec: addLogStep on a log in any state                              *)
(***************************************************************************)
StepActions == {"act", "Task skipped"}
StepInputs == [action : StepActions, output : {"", "out"}, error : {"", "err"}]

\* a TaskLog with the fields createLog gives it (logger.ts 159-167)
StepLogs ==
    {[taskId |-> "t1", executionId |-> e, timestamp |-> "ts0", status |-> st,
      steps |-> steps] :
        e \in {"exec-1-r1", "exec-2-r2"},
        st \in {"running", "success", "failure"},
        steps \in SeqsUpTo(StepSamples, MaxSteps)}

\* addLogStep(log, action, output, error)
AddStep ==
    /\ pc = "addStep"
    /\ Len(log.steps) <= MaxSteps
    /\ \E in \in StepInputs :
          log' = AddLogStep(log, in.action, in.output, in.error)
    /\ UNCHANGED <<pc, task, apiKey, result, finalizeCalls, tempFile, child,
                   exitCode, killSent, timer, spawns, apiCalls, notified, notice,
                   storeVars, OtherVars>>

StepInit ==
    /\ pc = "addStep"
    /\ task = [id |-> "t1", enabled |-> TRUE, invocation |-> "cli", toast |-> FALSE]
    /\ apiKey = FALSE
    /\ log \in StepLogs
    /\ result = NoResult
    /\ finalizeCalls = 0
    /\ tempFile = "absent"
    /\ child = "none"
    /\ exitCode = "none"
    /\ killSent = FALSE
    /\ timer = "unset"
    /\ spawns = 0
    /\ apiCalls = 0
    /\ notified = 0
    /\ notice = "none"
    /\ StoreInit /\ KeyInit /\ AuxInit /\ SchedInit

StepNext == AddStep

StepSpec == StepInit /\ [][StepNext]_vars

\* C29: addLogStep appends exactly one step at the end of the step list; the
\* steps already there keep content and order, status, taskId, executionId
\* and timestamp of the log are unchanged, and nothing is persisted.
C29_AppendOnly ==
    [][pc = "addStep" =>
        /\ Len(log'.steps) = Len(log.steps) + 1
        /\ SubSeq(log'.steps, 1, Len(log.steps)) = log.steps
        /\ log'.steps[Len(log'.steps)] \in StepInputs
        /\ log'.status = log.status
        /\ log'.taskId = log.taskId
        /\ log'.executionId = log.executionId
        /\ log'.timestamp = log.timestamp
        /\ DOMAIN log' = DOMAIN log
        /\ UNCHANGED <<logsDir, memorySkill, tempFile, files>>]_vars

\* a step appended to a finished log that already had different steps
C29_Witness ==
    /\ pc = "addStep" /\ log.status = "failure"
    /\ Len(log.steps) = MaxSteps + 1
    /\ log.steps[1] # log.steps[Len(log.steps)]
    /\ log.steps[Len(log.steps)].action = "Task skipped"
    /\ log.executionId = "exec-2-r2"

(***************************************************************************)
(* KeySpec: getSecretKey and updateConfig against config.json              *)
(***************************************************************************)
MaxKeyCalls == 3

\* generateSecretKey: 32 random bytes in hex, a key never handed out before
GenerateSecretKey(n) == "g" \o ToString(n + 1)

\* loadConfig 40-50, the file exists: the key in it, or a generated one that
\* is not written back
LoadExisting(file, n) ==
    IF file.secretKey # ""
    THEN [key |-> file.secretKey, generated |-> n]
    ELSE [key |-> GenerateSecretKey(n), generated |-> n + 1]

RunFrozen ==
    UNCHANGED <<execVars, storeVars, keyVars, schedVars, runVars, taskVars>>

\* getSecretKey (also the key access of signContent and verifySignature)
\* when config.json exists
GetSecretKey ==
    /\ pc = "config" /\ Len(returned) < MaxKeyCalls
    /\ configFile.exists
    /\ \E p \in Procs :
          /\ loading[p] = Idle
          /\ LET r == LoadExisting(configFile, generated)
             IN  /\ returned' = Append(returned, [proc |-> p, key |-> r.key,
                                                created |-> FALSE])
                 /\ generated' = r.generated
    /\ UNCHANGED <<configFile, loading>>
    /\ RunFrozen

\* loadConfig 40, 54-59: existsSync found no file and the key is generated
LoadConfigCreate ==
    /\ pc = "config" /\ generated < MaxKeyCalls
    /\ ~configFile.exists
    /\ \E p \in Procs :
          /\ loading[p] = Idle
          /\ loading' = [loading EXCEPT ![p] =
                            [at |-> "creating", key |-> GenerateSecretKey(generated)]]
    /\ generated' = generated + 1
    /\ UNCHANGED <<configFile, returned>>
    /\ RunFrozen

\* loadConfig 61-64 and getSecretKey 72: the new configuration is written
\* and its key returned
LoadConfigWrite ==
    /\ pc = "config"
    /\ \E p \in Procs :
          /\ loading[p].at = "creating"
          /\ configFile' = ConfigWith(loading[p].key)
          /\ returned' = Append(returned, [proc |-> p, key |-> loading[p].key,
                                         created |-> TRUE])
          /\ loading' = [loading EXCEPT ![p] = Idle]
    /\ UNCHANGED generated
    /\ RunFrozen

\* updateConfig 85-89 with updates that do not name secretKey: loadConfig,
\* merge, write
UpdateConfig ==
    /\ pc = "config" /\ generated < MaxKeyCalls
    /\ \E p \in Procs :
          /\ loading[p] = Idle
          /\ LET r == IF configFile.exists
                      THEN LoadExisting(configFile, generated)
                      ELSE [key |-> GenerateSecretKey(generated),
                            generated |-> generated + 1]
             IN  /\ configFile' = ConfigWith(r.key)
                 /\ generated' = r.generated
    /\ UNCHANGED <<loading, returned>>
    /\ RunFrozen

KeyStart ==
    /\ pc = "config"
    /\ task = [id |-> "t1", enabled |-> TRUE, invocation |-> "cli", toast |-> FALSE]
    /\ apiKey = FALSE
    /\ log = NoLog
    /\ result = NoResult
    /\ finalizeCalls = 0
    /\ tempFile = "absent"
    /\ child = "none"
    /\ exitCode = "none"
    /\ killSent = FALSE
    /\ timer = "unset"
    /\ spawns = 0
    /\ apiCalls = 0
    /\ notified = 0
    /\ notice = "none"
    /\ StoreInit /\ KeyInit /\ SchedInit
    /\ configFile \in {ConfigAbsent, ConfigWith(""), ConfigWith("k1")}
    /\ generated = 0
    /\ loading = [p \in Procs |-> Idle]
    /\ returned = <<>>
    /\ execs = [p \in Procs |-> NoExec]
    /\ files = {}
    /\ TaskInit

KeyNext ==
    \/ GetSecretKey
    \/ LoadConfigCreate
    \/ LoadConfigWrite
    \/ UpdateConfig

KeySpec == KeyStart /\ [][KeyNext]_vars

\* C26: with the configuration never deleted, every getSecretKey call
\* returns the same key, and a key that was returned is the key persisted
\* in config.json.
C26_GetKeyIdempotent ==
    /\ \A i, j \in 1..Len(returned) : returned[i].key = returned[j].key
    /\ returned # <<>> => configFile = ConfigWith(returned[1].key)

(***************************************************************************)
(* RunSpec: two executions, each in its own process, persisting their logs *)
(***************************************************************************)
MaxClock == 2

RunTaskIds == {"t1", "t2"}
\* Math.random().toString(36).substr(2, 9)
Suffixes == {"r1", "r2"}

\* createLog 162: exec-<Date.now()>-<random suffix>
ExecutionId(now, suffix) == "exec-" \o ToString(now) \o "-" \o suffix

\* a fallback location named after the task alone
FallbackPathByTask(taskId, executionId) == "./logs/" \o taskId \o ".md"

\* saveLogToMemory 100: ./logs/<taskId>-<executionId>.md
FallbackPath(taskId, executionId) ==
    "./logs/" \o taskId \o "-" \o executionId \o ".md"

\* the same location as directory and file name, the name as the pieces it is
\* put together from
FallbackDir == "./logs"
FallbackName(taskId, executionId) == <<taskId, "-", executionId, ".md">>

\* config.logsDir when config.json does not name one (config.ts 38)
ConfigLogsDir == "~/.cron-claude/logs"

\* f.startsWith(prefix) and f.endsWith(suffix) on a name held as its pieces
StartsWith(name, prefix) ==
    Len(name) >= Len(prefix) /\ SubSeq(name, 1, Len(prefix)) = prefix
EndsWith(name, suffix) ==
    Len(name) >= Len(suffix)
    /\ SubSeq(name, Len(name) - Len(suffix) + 1, Len(name)) = suffix

\* cron_view_logs (mcp-server.ts 471-527): the files of config.logsDir whose
\* name starts with <task_id>_ and ends with .md; the handler sorts them in
\* reverse and shows the first ten
ViewLogs(fs, dir, taskId) ==
    {f \in fs : /\ f.dir = dir
                /\ StartsWith(f.name, <<taskId, "_">>)
                /\ EndsWith(f.name, <<".md">>)}

\* writeFileSync(path, ...): the file at the path is created or replaced
WriteFile(fs, file) == {f \in fs : f.path # file.path} \cup {file}

\* createLog(taskId) in process p
CreateLogIn ==
    /\ pc = "runs"
    /\ \E p \in Procs, taskId \in RunTaskIds, now \in 1..MaxClock,
          suffix \in Suffixes :
          /\ execs[p].at = "none"
          /\ execs' = [execs EXCEPT ![p] =
                          [at |-> "running", taskId |-> taskId, now |-> now,
                           suffix |-> suffix,
                           executionId |-> ExecutionId(now, suffix),
                           status |-> "running", stored |-> "none"]]
    /\ UNCHANGED <<files, execVars, storeVars, keyVars, schedVars, configVars,
                   taskVars>>

\* finalizeLog(log, success) in process p
FinalizeIn ==
    /\ pc = "runs"
    /\ \E p \in Procs, success \in BOOLEAN, o \in SaveOutcomes :
          LET status == IF success THEN "success" ELSE "failure"
              lg == [taskId |-> execs[p].taskId, status |-> status, steps |-> <<>>]
          IN  /\ execs[p].at = "running"
              /\ SaveLogToMemory(lg, o)
              /\ files' = IF o = "fallbackOk"
                          THEN WriteFile(files,
                                 [path |-> FallbackPath(execs[p].taskId,
                                                        execs[p].executionId),
                                  dir |-> FallbackDir,
                                  name |-> FallbackName(execs[p].taskId,
                                                        execs[p].executionId),
                                  owner |-> p, status |-> status])
                          ELSE files
              /\ execs' = [execs EXCEPT ![p].at = "ended", ![p].status = status,
                              ![p].stored = CASE o = "fallbackOk" -> "fallback"
                                              [] o = "memoryOk" -> "memory"
                                              [] OTHER -> "lost"]
    /\ UNCHANGED <<execVars, keyVars, schedVars, configVars, taskVars>>

RunStart ==
    /\ pc = "runs"
    /\ task = [id |-> "t1", enabled |-> TRUE, invocation |-> "cli", toast |-> FALSE]
    /\ apiKey = FALSE
    /\ log = NoLog
    /\ result = NoResult
    /\ finalizeCalls = 0
    /\ tempFile = "absent"
    /\ child = "none"
    /\ exitCode = "none"
    /\ killSent = FALSE
    /\ timer = "unset"
    /\ spawns = 0
    /\ apiCalls = 0
    /\ notified = 0
    /\ notice = "none"
    /\ StoreInit /\ KeyInit /\ AuxInit /\ SchedInit

RunNext ==
    \/ CreateLogIn
    \/ FinalizeIn

RunSpec == RunStart /\ [][RunNext]_vars

StartedRun(p) == execs[p].at # "none"
KeptRecord(p) == \E f \in files : f.owner = p /\ f.status = execs[p].status

\* C28 as stated: any two executions have different executionIds, and a
\* record an execution persisted is never replaced by another execution.
C28_AlwaysDistinct ==
    \A p, q \in Procs :
        p # q /\ StartedRun(p) /\ StartedRun(q) =>
            /\ execs[p].executionId # execs[q].executionId
            /\ execs[p].stored = "fallback" => KeptRecord(p)

\* C28: two executions have the same executionId exactly when they started
\* in the same millisecond and drew the same random suffix; executions that
\* differ in task id or executionId never replace each other's record.
C28_DistinctUnlessSameDraw ==
    \A p, q \in Procs :
        p # q /\ StartedRun(p) /\ StartedRun(q) =>
            /\ execs[p].executionId = execs[q].executionId
                  <=> (execs[p].now = execs[q].now
                        /\ execs[p].suffix = execs[q].suffix)
            /\ (/\ execs[p].stored = "fallback"
                /\ \/ execs[p].executionId # execs[q].executionId
                   \/ execs[p].taskId # execs[q].taskId)
               => KeptRecord(p)

\* two executions of one task started in the same millisecond with different
\* suffixes, both persisted to ./logs and both records there
C28_Witness ==
    /\ execs["p1"].stored = "fallback" /\ execs["p2"].stored = "fallback"
    /\ execs["p1"].taskId = execs["p2"].taskId
    /\ execs["p1"].now = execs["p2"].now
    /\ execs["p1"].suffix # execs["p2"].suffix
    /\ KeptRecord("p1") /\ KeptRecord("p2")
    /\ Cardinality(files) = 2

\* C31: every native call of register (direct script, elevated script,
\* confirmation query), unregister, enable, disable and status names the
\* object CronClaude_<task id>, different task ids have different names, and
\* no call touches the object of another name.
C31_OneNamePerTask ==
    /\ [](call.op # "none" =>
            /\ call.names \subseteq {"CronClaude_" \o call.id}
            /\ call.direct + call.elevatedRuns + call.queries > 0
                  => call.names = {"CronClaude_" \o call.id})
    /\ [](\A a, b \in SchedIds : a # b => TaskName(a) # TaskName(b))
    /\ [][call'.op # "none" =>
            \A name \in DOMAIN native \ {"CronClaude_" \o call'.id} :
                native'[name] = native[name]]_vars

\* register of b went through the direct attempt, the elevated script and
\* the query, while a stays registered as it was
C31_Witness ==
    /\ call.op = "register" /\ call.id = "b" /\ call.ok
    /\ call.direct = 1 /\ call.elevatedRuns = 1 /\ call.queries = 1
    /\ call.names = {"CronClaude_b"}
    /\ native["CronClaude_b"].state = "Enabled"
    /\ native["CronClaude_a"].state = "Disabled"
    /\ native["CronClaude_a"].schedule # native["CronClaude_b"].schedule

\* C32: status never hands the scheduler's never-run timestamp to its caller
\* as the last-run time, and no listing prints it.
C32_NeverRunIsUnset ==
    call.op = "status" =>
        /\ call.status.lastRunTime # NeverRun
        /\ McpListLastRun(call.status) # NeverRun
        /\ CliListLastRun(call.status) # NeverRun

\* C38: status reports exists = false exactly when the native object is
\* Unregistered and enabled = true exactly when it is Registered(Enabled),
\* also while the task is running; status never raises.
C38_StatusMirrorsNative ==
    call.op = "status" =>
        /\ call.ok
        /\ call.status.exists <=> Exists(native[TaskName(call.id)])
        /\ call.status.enabled <=> native[TaskName(call.id)].state = "Enabled"

\* C37: when register reports success the native object holds the schedule
\* and trigger time of this call, whatever it held before and whichever path
\* registered it.
C37_SuccessMeansThisRegistration ==
    call.op = "register" /\ call.ok =>
        /\ native[TaskName(call.id)].schedule = call.schedule
        /\ native[TaskName(call.id)].installed.at
              = ParseCronExpression(call.schedule).trigger.time

\* C33: every persisted record of an execution is named
\* <taskId>_<sortable timestamp>_<executionId>, and the log listing for a task
\* returns the records of that task's executions and of no other task.
C33_ListingReturnsRecords ==
    /\ \A f \in files :
          /\ Len(f.name) = 6
          /\ f.name[1] = execs[f.owner].taskId /\ f.name[2] = "_"
          /\ f.name[4] = "_" /\ f.name[5] = execs[f.owner].executionId
    /\ \A p \in Procs :
          execs[p].stored = "fallback" /\ KeptRecord(p) =>
              \E f \in ViewLogs(files, ConfigLogsDir, execs[p].taskId) : f.owner = p
    /\ \A t \in RunTaskIds :
          \A f \in ViewLogs(files, ConfigLogsDir, t) : execs[f.owner].taskId = t

\* C34: when verifyLogFile reports a document valid, the taskId and status
\* it returns are those the record had when finalizeLog signed it.
C34_ValidMeansSignedMetadata ==
    verdict.checked /\ original # NoDoc /\ verdict.res.valid =>
        /\ verdict.res.taskId = original.data.taskId
        /\ verdict.res.status = original.data.status

\* C35: once finalizeLog has persisted the record of the execution, the step
\* list in memory stays the one rendered in the persisted record.
C35_NoStepAfterFinalize ==
    finalizeCalls >= 1 /\ Len(logsDir) >= 1 =>
        /\ BodyOf(logsDir[Len(logsDir)]) = Newline(RenderBody(log))
        /\ logsDir[Len(logsDir)] = FormatTaskLog(log, secretKey)

\* C36: two processes that both make their first key access on an
\* installation without config.json get the same key, that key is the one
\* left in config.json, and what either signs verifies with the persisted key.
C36_ConcurrentFirstUseOneKey ==
    \A i, j \in 1..Len(returned) :
        /\ returned[i].created /\ returned[j].created
        /\ returned[i].proc # returned[j].proc
        /\ \A p \in Procs : loading[p] = Idle
        => /\ returned[i].key = returned[j].key
           /\ configFile.secretKey = returned[i].key
           /\ VerifySignature(<<"body">>,
                              SignContent(<<"body">>, returned[i].key),
                              configFile.secretKey)

(***************************************************************************)
(* StorageSpec: the same TaskStorage calls made on a FileStorage and on a  *)
(* MemoryStorage that both start empty.                                     *)
(***************************************************************************)
MaxMemories == 3

StorageFrozen ==
    UNCHANGED <<execVars, storeVars, keyVars, schedVars, configVars, runVars>>

Answered(op, taskId, t, file, memory) ==
    [NoReply EXCEPT !.op = op, !.taskId = taskId, !.task = t,
                    !.file = file, !.memory = memory]

\* createTask(task) on both
CreateTask ==
    /\ pc = "storage"
    /\ reply.op = "none"
    /\ Len(memories) < MaxMemories
    /\ \E t \in TaskDefs :
          LET f == FileCreateTask(fileDir, t)
              m == MemCreateTask(memories, t)
          IN  /\ fileDir' = f.dir
              /\ memories' = m.mems
              /\ reply' = Answered("createTask", t.id, t, f.answer, m.answer)
    /\ UNCHANGED <<tempDir, microtasks>>
    /\ StorageFrozen

\* getTask(taskId) on both
GetTask ==
    /\ pc = "storage"
    /\ reply.op = "none"
    /\ \E taskId \in StoreIds :
          reply' = Answered("getTask", taskId, NoTaskDef,
                            FileGetTask(fileDir, taskId),
                            MemGetTask(memories, taskId))
    /\ UNCHANGED <<fileDir, memories, tempDir, microtasks>>
    /\ StorageFrozen

\* updateTask(taskId, task) on both, the task carrying the id it is stored under
UpdateTask ==
    /\ pc = "storage"
    /\ reply.op = "none"
    /\ Len(memories) < MaxMemories
    /\ \E t \in TaskDefs :
          LET f == FileUpdateTask(fileDir, t.id, t)
              m == MemUpdateTask(memories, t.id, t)
          IN  /\ fileDir' = f.dir
              /\ memories' = m.mems
              /\ reply' = Answered("updateTask", t.id, t, f.answer, m.answer)
    /\ UNCHANGED <<tempDir, microtasks>>
    /\ StorageFrozen

\* deleteTask(taskId) on both; MemoryStorage also unlinks its temp file
DeleteTask ==
    /\ pc = "storage"
    /\ reply.op = "none"
    /\ \E taskId \in StoreIds :
          LET f == FileDeleteTask(fileDir, taskId)
              m == MemDeleteTask(memories, taskId)
          IN  /\ fileDir' = f.dir
              /\ memories' = m.mems
              /\ tempDir' = IF m.answer.kind = "void"
                            THEN [tempDir EXCEPT ![taskId] = <<>>] ELSE tempDir
              /\ reply' = Answered("deleteTask", taskId, NoTaskDef,
                                   f.answer, m.answer)
    /\ UNCHANGED microtasks
    /\ StorageFrozen

\* exists(taskId) on both
ExistsTask ==
    /\ pc = "storage"
    /\ reply.op = "none"
    /\ \E taskId \in StoreIds :
          reply' = Answered("exists", taskId, NoTaskDef,
                            FileExists(fileDir, taskId),
                            MemExists(memories, taskId))
    /\ UNCHANGED <<fileDir, memories, tempDir, microtasks>>
    /\ StorageFrozen

\* MemoryStorage.getTaskFilePath(taskId): when tempDir has no file it asks the
\* memory, hangs the write on the promise with .then, and returns the path.
\* reply.atPath is what is at the returned path when the call returns.
GetTaskFilePath ==
    /\ pc = "storage"
    /\ reply.op = "none"
    /\ \E taskId \in StoreIds :
          LET content == RetrieveFromMemory(memories, taskId)
          IN  /\ microtasks' =
                    IF tempDir[taskId] = <<>> /\ content # <<>>
                    THEN microtasks \cup
                            {[taskId |-> taskId, content |-> content[1]]}
                    ELSE microtasks
              /\ reply' = [NoReply EXCEPT !.op = "getTaskFilePath",
                                          !.taskId = taskId,
                                          !.stored = content # <<>>,
                                          !.atPath = tempDir[taskId]]
    /\ UNCHANGED <<fileDir, memories, tempDir>>
    /\ StorageFrozen

\* the .then callback of getTaskFilePath, run by the event loop once the
\* code that called getTaskFilePath has given up the thread
WriteTempFile ==
    /\ pc = "storage"
    /\ \E job \in microtasks :
          /\ tempDir' = [tempDir EXCEPT ![job.taskId] = <<job.content>>]
          /\ microtasks' = microtasks \ {job}
    /\ UNCHANGED <<fileDir, memories, reply>>
    /\ StorageFrozen

\* the caller takes the answer
Replied ==
    /\ pc = "storage"
    /\ reply.op # "none"
    /\ reply' = NoReply
    /\ UNCHANGED <<fileDir, memories, tempDir, microtasks>>
    /\ StorageFrozen

StorageStart ==
    /\ pc = "storage"
    /\ task = [id |-> "t1", enabled |-> TRUE, invocation |-> "cli", toast |-> FALSE]
    /\ apiKey = FALSE
    /\ log = NoLog
    /\ result = NoResult
    /\ finalizeCalls = 0
    /\ tempFile = "absent"
    /\ child = "none"
    /\ exitCode = "none"
    /\ killSent = FALSE
    /\ timer = "unset"
    /\ spawns = 0
    /\ apiCalls = 0
    /\ notified = 0
    /\ notice = "none"
    /\ StoreInit /\ KeyInit /\ AuxInit /\ SchedInit

StorageNext ==
    \/ CreateTask
    \/ GetTask
    \/ UpdateTask
    \/ DeleteTask
    \/ ExistsTask
    \/ GetTaskFilePath
    \/ WriteTempFile
    \/ Replied

StorageSpec == StorageStart /\ [][StorageNext]_vars

\* C39: when MemoryStorage.getTaskFilePath(id) returns for a task that is in
\* the store, the task file is already at the returned path.
C39_FileThereOnReturn ==
    (reply.op = "getTaskFilePath" /\ reply.stored) => reply.atPath # <<>>

\* C40: after a deleteTask(id) that succeeded, exists(id) is false and
\* getTask(id) is null, in FileStorage and in MemoryStorage alike.
C40_DeletedIsGone ==
    reply.op = "deleteTask" =>
        /\ reply.file.kind = "void" =>
              /\ FileExists(fileDir, reply.taskId) = Bool(FALSE)
              /\ FileGetTask(fileDir, reply.taskId) = Null
        /\ reply.memory.kind = "void" =>
              /\ MemExists(memories, reply.taskId) = Bool(FALSE)
              /\ MemGetTask(memories, reply.taskId) = Null

====
